---- MODULE Spec2Model ----
(***************************************************************************)
(* Distributed inference dispatch fabric.                                  *)
(*                                                                         *)
(* Part I  - batch job coordinator: the gateway publishes job descriptors  *)
(*           to the durable log, the consumer (consumer/kafka.go) creates  *)
(*           the job row and runs Pool.ProcessJob (worker/pool.go), which  *)
(*           fans the items out over PoolSize workers, checkpoints         *)
(*           progress in the job store (storage/postgres.go) and uploads   *)
(*           the manifest (storage/minio.go).                              *)
(* Part II - model router: per-endpoint circuit breakers (router.go; the   *)
(*           breaker is sony/gobreaker v0.5.0, pinned in go.mod).          *)
(***************************************************************************)
EXTENDS Integers, Sequences, FiniteSets, Bags, TLC

(***************************************************************************)
(* Bounds of the model.                                                    *)
(***************************************************************************)
\* largest number of inputs of one batch job
MaxItems == 2
\* W, the width of the worker pool (Pool.size), at least 1
PoolSize == 2
\* how often the log may deliver the message of one job id (at-least-once)
MaxDeliveries == 2

\* the job ids the gateway hands out (uuid.New) while the model runs
JobIds == {"j1"}
Payloads == {"x", "y"}

\* every input vector a descriptor can carry: ordered, possibly empty, with repeats
InputVectors == UNION {[1..n -> Payloads] : n \in 0..MaxItems}

\* a message on the topic that the gateway did not publish: its key, and the
\* values it can carry: bytes that are not JSON, or a JSON object without the
\* descriptor's fields (job_id, model, version, inputs)
ForeignKey == "f1"
InvalidJSON == "invalid json"
ObjectWithoutFields == "{}"
ForeignValues == {InvalidJSON, ObjectWithoutFields}
\* jobID, _ := jobMsg["job_id"].(string) of a message without a job_id string
EmptyJobId == ""
\* the key of the message that carries a job id (the gateway keys by job id)
MsgOf(id) == IF id = EmptyJobId THEN ForeignKey ELSE id

StatusPending == "pending"
StatusProcessing == "processing"
StatusCompleted == "completed"
StatusFailed == "failed"
Terminal == {StatusCompleted, StatusFailed}

VARIABLES
    topic,        \* durable log: job id -> descriptor published by the gateway
    marked,       \* job id -> number of times the consumer marked its message
    jobs,         \* batch_jobs table: job id -> row
    objstore,     \* object store: job id -> uploaded manifest
    pc,           \* position of the consumer / ProcessJob main goroutine
    cur,          \* job id of the run in progress
    ctxCancelled, \* the session context of the run is cancelled
    senderPc,     \* position of the input-sending goroutine
    sent,         \* number of inputs sent to inputChan
    taken,        \* number of inputs received from inputChan
    busy,         \* indices held by workers inside processInference
    exited,       \* number of workers that returned
    resultChan,   \* buffered result channel
    resultClosed, \* close(resultChan) has run
    results,      \* the result buffer of ProcessJob
    completed,    \* local counter of ProcessJob
    errorCount,   \* local counter of ProcessJob
    slotWrites,   \* history: how often each slot of results was written
    arrivals,     \* history: the item indices in the order the collector received them
    uploadErr,    \* the run's UploadResults call failed
    backends,     \* router registry of the target: list of backends with breakers
    inflight,     \* bag of backend calls inside executeRequest
    now,          \* wall clock in seconds
    rlKeys,       \* Redis: the rate-limit counter key of each principal
    rlReqs,       \* requests inside the RateLimit middleware, after their INCR
    admissions,   \* history: per principal, the requests the middleware let pass
    syncReply,    \* the gateway's answer to the last synchronous inference request
    deregistered, \* history: the URLs whose removal from the registry was asked for
    batchReply,   \* the gateway's answer to the last batch submission
    statusReply,  \* the gateway's answer to the last job status poll
    correlation,  \* history: the request id seen at each hop of the synchronous path
    repo,         \* metadata service, table models: the ids of the rows
    cache,        \* metadata service, Redis: the model ids with a cache entry
    gets,         \* GetModel requests past their cache lookup
    dels,         \* DeleteModel requests past their DELETE
    created,      \* history: the model ids CreateModel has drawn
    deleted,      \* history: the model ids for which DeleteModel answered 200
    cacheFailed,  \* history: a cache operation of the metadata service failed
    getReply,     \* the answer to the last GetModel
    sinceSelected, \* history: per backend, the requests routed since it was last selected
    mu,           \* router: holders of the registry RWMutex (readers, writer)
    routine,      \* router: per RouteRequest goroutine, its position, call and held backend lock
    registering,  \* router: position of the RegisterBackend goroutine
    size,         \* batch worker: Pool.size, the number of workers of a run
    served        \* gateway: the last request through Auth: its header, answer and throttle key

batchVars == <<topic, marked, jobs, objstore, pc, cur, ctxCancelled, senderPc, sent,
               taken, busy, exited, resultChan, resultClosed, results, completed,
               errorCount, slotWrites, arrivals, uploadErr>>

routerVars == <<backends, inflight, now>>

gatewayVars == <<rlKeys, rlReqs, admissions, syncReply>>

registryVars == <<deregistered>>

handlerVars == <<batchReply, statusReply>>

traceVars == <<correlation>>

metaVars == <<repo, cache, gets, dels, created, deleted, cacheFailed, getReply>>

selectVars == <<sinceSelected>>

lockVars == <<mu, routine, registering>>

configVars == <<size>>

authVars == <<served>>

\* what the actions of one part leave unchanged
nonBatchVars == <<routerVars, gatewayVars, registryVars, handlerVars, traceVars, metaVars, selectVars, lockVars, configVars, authVars>>
nonRouterVars == <<batchVars, gatewayVars, registryVars, handlerVars, traceVars, metaVars, selectVars, lockVars, configVars, authVars>>
nonGatewayVars == <<batchVars, backends, inflight, registryVars, handlerVars, traceVars, metaVars, selectVars, lockVars, configVars, authVars>>
nonSyncVars == <<batchVars, rlKeys, rlReqs, admissions, registryVars, handlerVars, metaVars, selectVars, lockVars, configVars, authVars>>
nonMetaVars == <<batchVars, routerVars, gatewayVars, registryVars, handlerVars, traceVars, selectVars, lockVars, configVars, authVars>>

nonLockVars == <<batchVars, gatewayVars, registryVars, handlerVars, traceVars, metaVars, selectVars, configVars, authVars>>
nonAuthVars == <<batchVars, backends, inflight, syncReply, registryVars, handlerVars, traceVars, metaVars, selectVars, lockVars, configVars>>

vars == <<batchVars, routerVars, gatewayVars, registryVars, handlerVars, traceVars, metaVars, selectVars, lockVars, configVars, authVars>>

(***************************************************************************)
(* Pure helpers of worker/pool.go.                                         *)
(***************************************************************************)
\* func max(a, b int) int
Max(a, b) == IF a > b THEN a ELSE b

\* variant: the fraction is computed before the counter is incremented
ProgressBeforeIncrement(c, total) == <<c - 1, total>>

\* progress := float64(completed) / float64(job.TotalItems), kept as the exact
\* fraction <<numerator, denominator>>; the column default 0 is <<0, 1>>
Progress(c, total) == <<c, total>>
ProgressZero == <<0, 1>>
ProgressLeq(p, q) == p[1] * q[2] <= q[1] * p[2]

\* the condition under which ProcessJob writes a progress checkpoint
ShouldCheckpoint(c, total) == (c % Max(1, total \div 10) = 0) \/ (c = total)

\* the error string of a failed item call; "" when the call succeeded
ItemError == "inference failed with status 500"

\* processInference: the InferenceResult of one item call with the given outcome
processInference(input, ok) ==
    IF ok THEN [input |-> input, prediction |-> <<"prediction", input>>, error |-> ""]
    ELSE [input |-> input, prediction |-> <<>>, error |-> ItemError]

\* a slot of the result buffer that was never written (a nil map)
NilSlot == [input |-> "nil", prediction |-> <<>>, error |-> "nil"]

\* resultData built from a received result
ResultData(r) == [input |-> r.input, prediction |-> r.prediction, error |-> r.error]

\* variant: the received result is appended, so its slot is its arrival position
SlotByArrival(index, arrival) == arrival

\* the slot a received result is stored in: results[result.index], whatever its
\* position in the order of arrival (indices are 1-based here)
SlotOf(index, arrival) == index

\* variant: a worker sends only the results of successful calls
SendResultDropErrors(ch, index, r) ==
    IF r.error # "" THEN ch ELSE Append(ch, [index |-> index, result |-> r])

\* the worker's send of a finished item on resultChan
SendResult(ch, index, r) == Append(ch, [index |-> index, result |-> r])

\* variant: any failed item fails the job
FinalStatusAnyError(errs, total) ==
    IF errs > 0 THEN StatusFailed ELSE StatusCompleted

\* variant: the error summary is never filled in
FinalErrorMsgEmpty(errs, total) == <<>>

\* finalStatus / errorMsg as ProcessJob determines them after a successful upload
FinalStatus(errs, total) ==
    IF errs > 0 /\ errs = total THEN StatusFailed ELSE StatusCompleted
FinalErrorMsg(errs, total) ==
    IF errs > 0 THEN <<errs, total, "items failed">> ELSE <<>>

\* err.Error() of a failed UploadResults
UploadErrorMsg == <<"failed to upload results">>

(***************************************************************************)
(* storage/postgres.go and storage/minio.go.                               *)
(***************************************************************************)
\* variant: CreateJob is an upsert, it never conflicts
InsertNeverConflicts(store, id) == FALSE

\* the INSERT of CreateJob violates the primary key when the id has a row
InsertConflict(store, id) == id \in DOMAIN store

\* CreateJob: INSERT ... (id, model, version, inputs, status, total_items, ...);
\* progress and completed take their column defaults, the other columns are NULL
CreateJob(store, id, total) ==
    [x \in DOMAIN store \cup {id} |->
        IF x = id
        THEN [status |-> StatusPending, completed |-> 0, progress |-> ProgressZero,
              total_items |-> total, result_url |-> "", error_msg |-> <<>>,
              completed_at |-> FALSE]
        ELSE store[x]]

\* UpdateJobProgress: UPDATE ... SET completed, progress WHERE id
UpdateJobProgress(store, id, c, p) ==
    IF id \in DOMAIN store
    THEN [store EXCEPT ![id].completed = c, ![id].progress = p]
    ELSE store

\* UpdateJobStatus with completed_at set for completed only
UpdateJobStatusCompletedOnly(store, id, status, url, msg) ==
    IF id \in DOMAIN store
    THEN [store EXCEPT ![id].status = status, ![id].result_url = url,
                       ![id].error_msg = msg,
                       ![id].completed_at = (status = StatusCompleted)]
    ELSE store

\* UpdateJobStatus: UPDATE ... SET status, result_url, error_msg, completed_at WHERE id
UpdateJobStatus(store, id, status, url, msg) ==
    IF id \in DOMAIN store
    THEN [store EXCEPT ![id].status = status, ![id].result_url = url,
                       ![id].error_msg = msg,
                       ![id].completed_at = (status \in Terminal)]
    ELSE store

\* the presigned URL UploadResults returns for results/{jobID}.json
ResultURL(id) == id

\* variant: the URL is presigned although the object was not put
UploadResultsNoPut(objs, id, manifest) == objs

\* UploadResults: PutObject of the marshalled results under the job's key
UploadResults(objs, id, manifest) ==
    [x \in DOMAIN objs \cup {id} |-> IF x = id THEN manifest ELSE objs[x]]

(***************************************************************************)
(* The run in progress.                                                    *)
(***************************************************************************)
Inputs == IF cur \in DOMAIN topic THEN topic[cur] ELSE <<>>
TotalItems == Len(Inputs)

\* workers counted without those inside processInference
idleWorkersIgnoresBusy == size - exited

idleWorkers == size - Cardinality(busy) - exited

\* inputChan holds the indices taken+1 .. sent; it is closed once senderPc = "closed"
inputReady == taken < sent

\* the sender returns without close(inputChan)
inputNeverClosed == FALSE

inputClosedAndDrained == senderPc = "closed" /\ taken = sent

\* a call on the job store or the object store with a cancelled context fails;
\* otherwise it succeeds or fails (connection loss, timeout) as the environment decides
IoOutcomes == IF ctxCancelled THEN {FALSE} ELSE BOOLEAN

runVars == <<pc, cur, ctxCancelled, senderPc, sent, taken, busy, exited, resultChan,
             resultClosed, results, completed, errorCount, slotWrites, arrivals,
             uploadErr>>
poolVars == <<senderPc, sent, taken, busy, exited, resultChan, resultClosed, results,
              completed, errorCount, slotWrites, arrivals, uploadErr>>

ResetRun ==
    /\ senderPc' = "idle"
    /\ sent' = 0
    /\ taken' = 0
    /\ busy' = {}
    /\ exited' = 0
    /\ resultChan' = <<>>
    /\ resultClosed' = FALSE
    /\ results' = <<>>
    /\ completed' = 0
    /\ errorCount' = 0
    /\ slotWrites' = <<>>
    /\ arrivals' = <<>>
    /\ uploadErr' = FALSE

InitBatch ==
    /\ topic = <<>>
    /\ marked = [id \in JobIds \cup {ForeignKey} |-> 0]
    /\ jobs = <<>>
    /\ objstore = <<>>
    /\ pc = "idle"
    /\ cur = "none"
    /\ ctxCancelled = FALSE
    /\ senderPc = "idle"
    /\ sent = 0
    /\ taken = 0
    /\ busy = {}
    /\ exited = 0
    /\ resultChan = <<>>
    /\ resultClosed = FALSE
    /\ results = <<>>
    /\ completed = 0
    /\ errorCount = 0
    /\ slotWrites = <<>>
    /\ arrivals = <<>>
    /\ uploadErr = FALSE

(***************************************************************************)
(* Gateway: BatchInference publishes a descriptor under a fresh job id.    *)
(***************************************************************************)
Publish(id, inputs) ==
    /\ UNCHANGED nonBatchVars
    /\ id \notin DOMAIN topic
    /\ topic' = [x \in DOMAIN topic \cup {id} |-> IF x = id THEN inputs ELSE topic[x]]
    /\ UNCHANGED <<marked, jobs, objstore, runVars>>

(***************************************************************************)
(* Consumer: one iteration of ConsumeClaim up to the call of ProcessJob.   *)
(* The descriptor is parsed and CreateJob is called; when CreateJob fails  *)
(* the message is marked and the loop continues.                           *)
(***************************************************************************)
ConsumeCreateFails(id, ok) ==
    /\ UNCHANGED nonBatchVars
    /\ pc = "idle"
    /\ id \in DOMAIN topic
    /\ marked[id] < MaxDeliveries
    /\ InsertConflict(jobs, id) \/ ~ok
    /\ marked' = [marked EXCEPT ![id] = @ + 1]
    /\ UNCHANGED <<topic, jobs, objstore, runVars>>

ConsumeCreate(id, ok) ==
    /\ UNCHANGED nonBatchVars
    /\ pc = "idle"
    /\ id \in DOMAIN topic
    /\ marked[id] < MaxDeliveries
    /\ ~InsertConflict(jobs, id) /\ ok
    /\ jobs' = CreateJob(jobs, id, Len(topic[id]))
    /\ cur' = id
    /\ pc' = "start"
    /\ UNCHANGED <<topic, marked, objstore, ctxCancelled, poolVars>>

(***************************************************************************)
(* ProcessJob: the status write to processing, then the channels, the      *)
(* workers, the sender and the closer are started.                         *)
(***************************************************************************)
SetProcessing(ok) ==
    /\ UNCHANGED nonBatchVars
    /\ pc = "start"
    /\ IF ok
       THEN /\ jobs' = UpdateJobStatus(jobs, cur, StatusProcessing, "", <<>>)
            /\ pc' = "collect"
            /\ senderPc' = "run"
            /\ results' = [i \in 1..TotalItems |-> NilSlot]
            /\ slotWrites' = [i \in 1..TotalItems |-> 0]
       ELSE /\ pc' = "returned"
            /\ UNCHANGED <<jobs, senderPc, results, slotWrites>>
    /\ UNCHANGED <<topic, marked, objstore, cur, ctxCancelled, sent, taken, busy, exited,
                   resultChan, resultClosed, completed, errorCount, arrivals, uploadErr>>

\* sender goroutine: select { case inputChan <- item: ; case <-ctx.Done(): return }
SenderSend ==
    /\ UNCHANGED nonBatchVars
    /\ senderPc = "run"
    /\ sent < TotalItems
    /\ sent' = sent + 1
    /\ UNCHANGED <<topic, marked, jobs, objstore, pc, cur, ctxCancelled, senderPc, taken,
                   busy, exited, resultChan, resultClosed, results, completed, errorCount,
                   slotWrites, arrivals, uploadErr>>

SenderAbort ==
    /\ UNCHANGED nonBatchVars
    /\ senderPc = "run"
    /\ sent < TotalItems
    /\ ctxCancelled
    /\ senderPc' = "aborted"
    /\ UNCHANGED <<topic, marked, jobs, objstore, pc, cur, ctxCancelled, sent, taken,
                   busy, exited, resultChan, resultClosed, results, completed, errorCount,
                   slotWrites, arrivals, uploadErr>>

SenderClose ==
    /\ UNCHANGED nonBatchVars
    /\ senderPc = "run"
    /\ sent = TotalItems
    /\ senderPc' = "closed"
    /\ UNCHANGED <<topic, marked, jobs, objstore, pc, cur, ctxCancelled, sent, taken,
                   busy, exited, resultChan, resultClosed, results, completed, errorCount,
                   slotWrites, arrivals, uploadErr>>

\* worker: select { case <-ctx.Done(): return ; case work, ok := <-inputChan: ... }
WorkerTake ==
    /\ UNCHANGED nonBatchVars
    /\ pc = "collect"
    /\ idleWorkers > 0
    /\ inputReady
    /\ taken' = taken + 1
    /\ busy' = busy \cup {taken + 1}
    /\ UNCHANGED <<topic, marked, jobs, objstore, pc, cur, ctxCancelled, senderPc, sent,
                   exited, resultChan, resultClosed, results, completed, errorCount,
                   slotWrites, arrivals, uploadErr>>

WorkerExit ==
    /\ UNCHANGED nonBatchVars
    /\ pc = "collect"
    /\ idleWorkers > 0
    /\ ctxCancelled \/ inputClosedAndDrained
    /\ exited' = exited + 1
    /\ UNCHANGED <<topic, marked, jobs, objstore, pc, cur, ctxCancelled, senderPc, sent,
                   taken, busy, resultChan, resultClosed, results, completed, errorCount,
                   slotWrites, arrivals, uploadErr>>

\* worker: processInference returns, then
\* select { case resultChan <- result: ; case <-ctx.Done(): return }
WorkerFinish(i, ok) ==
    /\ UNCHANGED nonBatchVars
    /\ pc = "collect"
    /\ i \in busy
    /\ busy' = busy \ {i}
    /\ resultChan' = SendResult(resultChan, i, processInference(Inputs[i], ok))
    /\ UNCHANGED <<topic, marked, jobs, objstore, pc, cur, ctxCancelled, senderPc, sent,
                   taken, exited, resultClosed, results, completed, errorCount,
                   slotWrites, arrivals, uploadErr>>

WorkerDrop(i) ==
    /\ UNCHANGED nonBatchVars
    /\ pc = "collect"
    /\ i \in busy
    /\ ctxCancelled
    /\ busy' = busy \ {i}
    /\ exited' = exited + 1
    /\ UNCHANGED <<topic, marked, jobs, objstore, pc, cur, ctxCancelled, senderPc, sent,
                   taken, resultChan, resultClosed, results, completed, errorCount,
                   slotWrites, arrivals, uploadErr>>

\* go func() { wg.Wait(); close(resultChan) }()
CloseResults ==
    /\ UNCHANGED nonBatchVars
    /\ pc = "collect"
    /\ exited = size
    /\ ~resultClosed
    /\ resultClosed' = TRUE
    /\ UNCHANGED <<topic, marked, jobs, objstore, pc, cur, ctxCancelled, senderPc, sent,
                   taken, busy, exited, resultChan, results, completed, errorCount,
                   slotWrites, arrivals, uploadErr>>

\* one iteration of `for result := range resultChan`
Collect(ok) ==
    /\ UNCHANGED nonBatchVars
    /\ pc = "collect"
    /\ resultChan # <<>>
    /\ LET r == Head(resultChan)
           c == completed + 1
           slot == SlotOf(r.index, c)
       IN /\ resultChan' = Tail(resultChan)
          /\ completed' = c
          /\ errorCount' = IF r.result.error # "" THEN errorCount + 1 ELSE errorCount
          /\ results' = [results EXCEPT ![slot] = ResultData(r.result)]
          /\ slotWrites' = [slotWrites EXCEPT ![slot] = @ + 1]
          /\ arrivals' = Append(arrivals, r.index)
          /\ jobs' = IF ShouldCheckpoint(c, TotalItems) /\ ok
                     THEN UpdateJobProgress(jobs, cur, c, Progress(c, TotalItems))
                     ELSE jobs
    /\ UNCHANGED <<topic, marked, objstore, pc, cur, ctxCancelled, senderPc, sent, taken,
                   busy, exited, resultClosed, uploadErr>>

\* the range loop ends when resultChan is closed and empty
CollectEnd ==
    /\ UNCHANGED nonBatchVars
    /\ pc = "collect"
    /\ resultChan = <<>>
    /\ resultClosed
    /\ pc' = "upload"
    /\ UNCHANGED <<topic, marked, jobs, objstore, cur, ctxCancelled, poolVars>>

\* resultURL, err := p.minioStore.UploadResults(ctx, job.ID, results)
Upload(ok) ==
    /\ UNCHANGED nonBatchVars
    /\ pc = "upload"
    /\ IF ok
       THEN /\ objstore' = UploadResults(objstore, cur, results)
            /\ pc' = "final"
            /\ UNCHANGED uploadErr
       ELSE /\ pc' = "upload_failed"
            /\ uploadErr' = TRUE
            /\ UNCHANGED objstore
    /\ UNCHANGED <<topic, marked, jobs, cur, ctxCancelled, senderPc, sent, taken, busy,
                   exited, resultChan, resultClosed, results, completed, errorCount,
                   slotWrites, arrivals>>

\* the status write after a failed upload; its own failure is only logged
UploadFailedStatus(ok) ==
    /\ UNCHANGED nonBatchVars
    /\ pc = "upload_failed"
    /\ jobs' = IF ok THEN UpdateJobStatus(jobs, cur, StatusFailed, "", UploadErrorMsg)
               ELSE jobs
    /\ pc' = "returned"
    /\ UNCHANGED <<topic, marked, objstore, cur, ctxCancelled, poolVars>>

\* the final status write after a successful upload
FinalUpdate(ok) ==
    /\ UNCHANGED nonBatchVars
    /\ pc = "final"
    /\ jobs' = IF ok
               THEN UpdateJobStatus(jobs, cur, FinalStatus(errorCount, TotalItems),
                                    ResultURL(cur), FinalErrorMsg(errorCount, TotalItems))
               ELSE jobs
    /\ pc' = IF ok THEN "returned_ok" ELSE "returned"
    /\ UNCHANGED <<topic, marked, objstore, cur, ctxCancelled, poolVars>>

\* back in ConsumeClaim: the message is marked whatever ProcessJob returned; a
\* cancelled session ends and the next one starts with a fresh context
ConsumeMark ==
    /\ UNCHANGED nonBatchVars
    /\ pc \in {"returned", "returned_ok"}
    /\ marked' = [marked EXCEPT ![MsgOf(cur)] = @ + 1]
    /\ pc' = "idle"
    /\ cur' = "none"
    /\ ctxCancelled' = FALSE
    /\ ResetRun
    /\ UNCHANGED <<topic, jobs, objstore>>

\* the session context is cancelled (rebalance, or main's cancel() on a signal)
Cancel ==
    /\ UNCHANGED nonBatchVars
    /\ pc \notin {"idle"}
    /\ ~ctxCancelled
    /\ ctxCancelled' = TRUE
    /\ UNCHANGED <<topic, marked, jobs, objstore, pc, cur, poolVars>>

\* main returns right after cancel(): the process exits with the run wherever it
\* is, and a restarted worker consumes with a fresh context
ProcessExit ==
    /\ UNCHANGED nonBatchVars
    /\ pc \notin {"idle"}
    /\ ctxCancelled
    /\ pc' = "idle"
    /\ cur' = "none"
    /\ ctxCancelled' = FALSE
    /\ ResetRun
    /\ UNCHANGED <<topic, marked, jobs, objstore>>

NextBatch ==
    \/ \E id \in JobIds, inputs \in InputVectors : Publish(id, inputs)
    \/ \E id \in JobIds, ok \in IoOutcomes : ConsumeCreateFails(id, ok)
    \/ \E id \in JobIds, ok \in IoOutcomes : ConsumeCreate(id, ok)
    \/ \E ok \in IoOutcomes : SetProcessing(ok)
    \/ SenderSend
    \/ SenderAbort
    \/ SenderClose
    \/ WorkerTake
    \/ WorkerExit
    \/ \E i \in 1..MaxItems, ok \in BOOLEAN : WorkerFinish(i, ok)
    \/ \E i \in 1..MaxItems : WorkerDrop(i)
    \/ CloseResults
    \/ \E ok \in IoOutcomes : Collect(ok)
    \/ CollectEnd
    \/ \E ok \in IoOutcomes : Upload(ok)
    \/ \E ok \in IoOutcomes : UploadFailedStatus(ok)
    \/ \E ok \in IoOutcomes : FinalUpdate(ok)
    \/ ConsumeMark
    \/ Cancel
    \/ ProcessExit

(***************************************************************************)
(* The consumer with a message on the topic that is not a job descriptor   *)
(* of the gateway.                                                         *)
(***************************************************************************)
PublishForeign(value) ==
    /\ UNCHANGED nonBatchVars
    /\ ForeignKey \notin DOMAIN topic
    /\ topic' = [x \in DOMAIN topic \cup {ForeignKey} |->
                    IF x = ForeignKey THEN value ELSE topic[x]]
    /\ UNCHANGED <<marked, jobs, objstore, runVars>>

\* json.Unmarshal fails: the message is marked and the loop continues
ConsumeUnparsable ==
    /\ UNCHANGED nonBatchVars
    /\ pc = "idle"
    /\ ForeignKey \in DOMAIN topic
    /\ topic[ForeignKey] = InvalidJSON
    /\ marked[ForeignKey] < MaxDeliveries
    /\ marked' = [marked EXCEPT ![ForeignKey] = @ + 1]
    /\ UNCHANGED <<topic, jobs, objstore, runVars>>

\* json.Unmarshal succeeds; the failed type assertions leave the job id empty
\* and the inputs empty, and the job is built and created like any other
ConsumeObjectCreateFails(ok) ==
    /\ UNCHANGED nonBatchVars
    /\ pc = "idle"
    /\ ForeignKey \in DOMAIN topic
    /\ topic[ForeignKey] = ObjectWithoutFields
    /\ marked[ForeignKey] < MaxDeliveries
    /\ InsertConflict(jobs, EmptyJobId) \/ ~ok
    /\ marked' = [marked EXCEPT ![ForeignKey] = @ + 1]
    /\ UNCHANGED <<topic, jobs, objstore, runVars>>

ConsumeObjectCreate(ok) ==
    /\ UNCHANGED nonBatchVars
    /\ pc = "idle"
    /\ ForeignKey \in DOMAIN topic
    /\ topic[ForeignKey] = ObjectWithoutFields
    /\ marked[ForeignKey] < MaxDeliveries
    /\ ~InsertConflict(jobs, EmptyJobId) /\ ok
    /\ jobs' = CreateJob(jobs, EmptyJobId, 0)
    /\ cur' = EmptyJobId
    /\ pc' = "start"
    /\ UNCHANGED <<topic, marked, objstore, ctxCancelled, poolVars>>

NextConsumer ==
    \/ NextBatch
    \/ \E value \in ForeignValues : PublishForeign(value)
    \/ ConsumeUnparsable
    \/ \E ok \in IoOutcomes : ConsumeObjectCreateFails(ok)
    \/ \E ok \in IoOutcomes : ConsumeObjectCreate(ok)

(***************************************************************************)
(* The executor called directly.  Pool.ProcessJob is exported and takes    *)
(* the job descriptor from its caller; a caller other than ConsumeClaim    *)
(* (the pool's tests, a re-run after a restart) creates the row with       *)
(* CreateJob and calls ProcessJob itself, for a new or for an existing id. *)
(***************************************************************************)
\* the caller's CreateJob; a conflicting INSERT leaves the table as it is
CallerCreate(id, ok) ==
    /\ UNCHANGED nonBatchVars
    /\ pc = "idle"
    /\ id \in DOMAIN topic
    /\ ok /\ ~InsertConflict(jobs, id)
    /\ jobs' = CreateJob(jobs, id, Len(topic[id]))
    /\ UNCHANGED <<topic, marked, objstore, runVars>>

\* the call of ProcessJob(ctx, job) with the descriptor of the id
InvokeExecutor(id) ==
    /\ UNCHANGED nonBatchVars
    /\ pc = "idle"
    /\ id \in DOMAIN topic
    /\ cur' = id
    /\ pc' = "start"
    /\ UNCHANGED <<topic, marked, jobs, objstore, ctxCancelled, poolVars>>

\* ProcessJob returns to its caller
ExecutorReturn ==
    /\ UNCHANGED nonBatchVars
    /\ pc \in {"returned", "returned_ok"}
    /\ pc' = "idle"
    /\ cur' = "none"
    /\ ctxCancelled' = FALSE
    /\ ResetRun
    /\ UNCHANGED <<topic, marked, jobs, objstore>>

NextExecutor ==
    \/ \E id \in JobIds, inputs \in InputVectors : Publish(id, inputs)
    \/ \E id \in JobIds, ok \in IoOutcomes : CallerCreate(id, ok)
    \/ \E id \in JobIds : InvokeExecutor(id)
    \/ \E ok \in IoOutcomes : SetProcessing(ok)
    \/ SenderSend
    \/ SenderAbort
    \/ SenderClose
    \/ WorkerTake
    \/ WorkerExit
    \/ \E i \in 1..MaxItems, ok \in BOOLEAN : WorkerFinish(i, ok)
    \/ \E i \in 1..MaxItems : WorkerDrop(i)
    \/ CloseResults
    \/ \E ok \in IoOutcomes : Collect(ok)
    \/ CollectEnd
    \/ \E ok \in IoOutcomes : Upload(ok)
    \/ \E ok \in IoOutcomes : UploadFailedStatus(ok)
    \/ \E ok \in IoOutcomes : FinalUpdate(ok)
    \/ Cancel
    \/ ExecutorReturn

(***************************************************************************)
(* Gateway, BatchInference (handlers/inference.go) as the client sees it:  *)
(* the body is bound to BatchInferenceRequest, a job id is drawn, the      *)
(* descriptor is sent with the synchronous producer and the answer is      *)
(* written.  The handler holds no router client call.                      *)
(***************************************************************************)
\* a body without the "inputs" key (or with null): the slice stays nil; written
\* as a vector that no body can carry
NilInputs == <<"nil">>
RequestInputs == InputVectors \cup {NilInputs}
\* the "model" field of the body; "" is a body without it
RequestModels == {"resnet18", ""}
NoJob == "none"

\* c.ShouldBindJSON(&req) with the tags binding:"required" (gin v1.9.1,
\* validator v10): a string must be non-empty, a slice must be non-nil
ShouldBindJSON(model, inputs) == model # "" /\ inputs # NilInputs

SubmitStatusIgnoresSend(bound, sendOk) == IF ~bound THEN 400 ELSE 202

\* the status the handler answers with
SubmitStatus(bound, sendOk) ==
    IF ~bound THEN 400 ELSE IF ~sendOk THEN 500 ELSE 202

\* the answer: BatchJobResponse on 202, an error object otherwise
BatchResponse(status, id, inputs) ==
    [status |-> status,
     job_id |-> IF status = 202 THEN id ELSE NoJob,
     job_status |-> IF status = 202 THEN "pending" ELSE "",
     inputs |-> IF status = 202 THEN inputs ELSE NilInputs]

NoBatchReply == [status |-> 0, job_id |-> NoJob, job_status |-> "", inputs |-> NilInputs]

\* GetJobStatus: the JobStatusResponse literal it answers every poll with;
\* the struct has no result_url field
MockTotalItems == 100
MockCompleted == 45
UnknownJobId == "j0"
PollIds == JobIds \cup {UnknownJobId}
JobStatusResponse(id) ==
    [http |-> 200, job_id |-> id, status |-> "processing",
     progress |-> Progress(MockCompleted, MockTotalItems),
     total_items |-> MockTotalItems, completed |-> MockCompleted, result_url |-> ""]
NoStatusReply ==
    [http |-> 0, job_id |-> NoJob, status |-> "", progress |-> ProgressZero,
     total_items |-> 0, completed |-> 0, result_url |-> ""]

InitHandlers == batchReply = NoBatchReply /\ statusReply = NoStatusReply

BatchInference(model, inputs, id, sendOk) ==
    /\ UNCHANGED <<routerVars, gatewayVars, registryVars, traceVars, metaVars, selectVars, lockVars, configVars, authVars>>
    /\ id \notin DOMAIN topic
    /\ LET bound == ShouldBindJSON(model, inputs)
           status == SubmitStatus(bound, sendOk)
       IN /\ topic' = IF bound /\ sendOk
                       THEN [x \in DOMAIN topic \cup {id} |->
                                IF x = id THEN inputs ELSE topic[x]]
                       ELSE topic
          /\ batchReply' = BatchResponse(status, id, inputs)
    /\ UNCHANGED <<marked, jobs, objstore, runVars, statusReply>>

GetJobStatus(id) ==
    /\ UNCHANGED <<batchVars, routerVars, gatewayVars, registryVars, traceVars, metaVars, selectVars, lockVars, configVars, authVars, batchReply>>
    /\ statusReply' = JobStatusResponse(id)

NextSubmit ==
    \/ \E model \in RequestModels, inputs \in RequestInputs, id \in JobIds, sendOk \in BOOLEAN :
           BatchInference(model, inputs, id, sendOk)
    \/ \E id \in JobIds, ok \in IoOutcomes : ConsumeCreateFails(id, ok)
    \/ \E id \in JobIds, ok \in IoOutcomes : ConsumeCreate(id, ok)
    \/ \E ok \in IoOutcomes : SetProcessing(ok)
    \/ SenderSend
    \/ SenderAbort
    \/ SenderClose
    \/ WorkerTake
    \/ WorkerExit
    \/ \E i \in 1..MaxItems, ok \in BOOLEAN : WorkerFinish(i, ok)
    \/ \E i \in 1..MaxItems : WorkerDrop(i)
    \/ CloseResults
    \/ \E ok \in IoOutcomes : Collect(ok)
    \/ CollectEnd
    \/ \E ok \in IoOutcomes : Upload(ok)
    \/ \E ok \in IoOutcomes : UploadFailedStatus(ok)
    \/ \E ok \in IoOutcomes : FinalUpdate(ok)
    \/ ConsumeMark
    \/ Cancel
    \/ ProcessExit

NextPoll ==
    \/ NextSubmit
    \/ \E id \in PollIds : GetJobStatus(id)

(***************************************************************************)
(* Part II - model router (router/router.go).  Each registered backend     *)
(* carries its own gobreaker.CircuitBreaker (sony/gobreaker v0.5.0) with   *)
(* the settings RegisterBackend passes; the operators below follow the     *)
(* library's beforeRequest / afterRequest protocol under those settings.   *)
(* Of gobreaker.Counts the breaker record keeps the fields these settings  *)
(* read: Requests, TotalFailures and ConsecutiveSuccesses.  Time is in     *)
(* seconds.                                                                *)
(***************************************************************************)
\* the clock stops here
MaxClock == 60
\* most requests the model routes to one closed breaker within one generation
MaxWindowRequests == 3
\* most backend calls in flight at once, all backends together
MaxInflight == 4

\* the steps by which the clock advances
Delays == {20}
\* the backends registered for the target, in the order of the RegisterBackend
\* calls; the registrations precede the first request
BackendURLs == <<"u1", "u2">>
\* what a backend call can come back with: a status code or a transport error
Outcomes == {"200", "200-undecodable", "400", "500", "transport"}

\* gobreaker.Settings of RegisterBackend
MaxRequests == 3
Interval == 10
Timeout == 30
\* ReadyToTrip: counts.Requests >= 3 && TotalFailures / Requests >= 0.6
TripMinRequests == 3
TripRatioNum == 6
TripRatioDen == 10
\* http.Client{Timeout: 30 * time.Second} of NewModelRouter
ClientTimeout == 30

StateClosed == "closed"
StateHalfOpen == "half-open"
StateOpen == "open"
ErrNone == "nil"
ErrOpenState == "circuit breaker is open"
ErrTooManyRequests == "too many requests"
\* the zero time.Time
ZeroTime == -1

\* variant: the request floor of the trip condition is missing
ReadyToTripRatioOnly(cb) ==
    cb.totalFailures * TripRatioDen >= TripRatioNum * cb.requests

ReadyToTrip(cb) ==
    /\ cb.requests >= TripMinRequests
    /\ cb.totalFailures * TripRatioDen >= TripRatioNum * cb.requests

\* variant: the open state lasts one counting interval
OpenExpiryInterval(t) == t + Interval

\* the expiry of a generation that starts in state open: now.Add(cb.timeout)
OpenExpiry(t) == t + Timeout

\* toNewGeneration: the counts are cleared and the expiry is set by state
toNewGeneration(cb, t) ==
    [cb EXCEPT !.generation = @ + 1,
               !.requests = 0, !.totalFailures = 0, !.consecutiveSuccesses = 0,
               !.expiry = CASE cb.state = StateClosed -> t + Interval
                            [] cb.state = StateOpen -> OpenExpiry(t)
                            [] OTHER -> ZeroTime]

\* setState; openedAt is history: the time of the last transition to open
setState(cb, state, t) ==
    IF cb.state = state THEN cb
    ELSE toNewGeneration([cb EXCEPT !.state = state,
                                    !.openedAt = IF state = StateOpen THEN t ELSE @], t)

\* currentState: the closed window rolls over, an expired open state turns half-open
currentState(cb, t) ==
    CASE cb.state = StateClosed /\ cb.expiry # ZeroTime /\ cb.expiry < t ->
            toNewGeneration(cb, t)
      [] cb.state = StateOpen /\ cb.expiry < t -> setState(cb, StateHalfOpen, t)
      [] OTHER -> cb

\* variant: the half-open budget check is off by one
TooManyRequestsOffByOne(cb) ==
    cb.state = StateHalfOpen /\ cb.requests > MaxRequests

\* beforeRequest: state == StateHalfOpen && cb.counts.Requests >= cb.maxRequests
TooManyRequests(cb) ==
    cb.state = StateHalfOpen /\ cb.requests >= MaxRequests

\* beforeRequest: the error (or nil) and the breaker after the call
beforeRequestErr(cb, t) ==
    LET c == currentState(cb, t) IN
    IF c.state = StateOpen THEN ErrOpenState
    ELSE IF TooManyRequests(c) THEN ErrTooManyRequests
    ELSE ErrNone

beforeRequest(cb, t) ==
    LET c == currentState(cb, t) IN
    IF beforeRequestErr(cb, t) = ErrNone THEN [c EXCEPT !.requests = @ + 1] ELSE c

\* variant: the first success in half-open closes the breaker
onSuccessClosesAtOnce(cb, t) ==
    LET c == [cb EXCEPT !.consecutiveSuccesses = @ + 1] IN
    CASE cb.state = StateClosed -> c
      [] cb.state = StateHalfOpen -> setState(c, StateClosed, t)
      [] OTHER -> cb

onSuccess(cb, t) ==
    LET c == [cb EXCEPT !.consecutiveSuccesses = @ + 1] IN
    CASE cb.state = StateClosed -> c
      [] cb.state = StateHalfOpen ->
            IF c.consecutiveSuccesses >= MaxRequests THEN setState(c, StateClosed, t) ELSE c
      [] OTHER -> cb

onFailure(cb, t) ==
    LET c == [cb EXCEPT !.totalFailures = @ + 1, !.consecutiveSuccesses = 0] IN
    CASE cb.state = StateClosed -> IF ReadyToTrip(c) THEN setState(c, StateOpen, t) ELSE c
      [] cb.state = StateHalfOpen -> setState(cb, StateOpen, t)
      [] OTHER -> cb

\* afterRequest: outcomes of an older generation are dropped
afterRequest(cb, before, success, t) ==
    LET c == currentState(cb, t) IN
    IF c.generation # before THEN c
    ELSE IF success THEN onSuccess(c, t) ELSE onFailure(c, t)

\* executeRequest returns an error for a transport error, for every status
\* other than 200 and for a body that does not decode; the breaker's default
\* IsSuccessful is err == nil
IsSuccessful(outcome) == outcome = "200"

\* RouteInference: every error of RouteRequest is answered 503
HTTPStatus(err) == IF err = ErrNone THEN 200 ELSE 503

\* gobreaker.NewCircuitBreaker: closed, first generation
NewCircuitBreaker(t) ==
    toNewGeneration([state |-> StateClosed, generation |-> 0, requests |-> 0,
                     totalFailures |-> 0, consecutiveSuccesses |-> 0,
                     expiry |-> ZeroTime, openedAt |-> ZeroTime], t)

Call(i, gen, t) == [backend |-> i, generation |-> gen, start |-> t]
InflightAt(bag, i) ==
    BagCardinality([c \in {x \in DOMAIN bag : x.backend = i} |-> bag[c]])

\* RegisterBackend: a new Backend with its own breaker is appended
RegisterBackend(list, url, t) ==
    Append(list, [url |-> url, cb |-> NewCircuitBreaker(t)])

RECURSIVE RegisterAll(_, _)
RegisterAll(urls, t) ==
    IF urls = <<>> THEN <<>>
    ELSE RegisterBackend(RegisterAll(SubSeq(urls, 1, Len(urls) - 1), t), urls[Len(urls)], t)

InitRouter ==
    /\ backends = RegisterAll(BackendURLs, 0)
    /\ inflight = EmptyBag
    /\ now = 0

\* RouteRequest up to the start of the backend call: selectBackend picks any
\* backend of the list, Execute runs beforeRequest and, when it admits the
\* request, executeRequest starts
RouteStep(i) ==
    /\ i \in DOMAIN backends
    /\ LET cb == backends[i].cb
           err == beforeRequestErr(cb, now)
           after == beforeRequest(cb, now)
       IN /\ backends' = [backends EXCEPT ![i].cb = after]
          /\ IF err = ErrNone
             THEN /\ after.state = StateClosed => after.requests <= MaxWindowRequests
                  /\ BagCardinality(inflight) < MaxInflight
                  /\ inflight' = inflight (+) SetToBag({Call(i, after.generation, now)})
             ELSE UNCHANGED inflight
    /\ UNCHANGED now

RouteRequest(i) ==
    /\ UNCHANGED nonRouterVars
    /\ RouteStep(i)

\* the backend call returns and Execute runs afterRequest
\* variant: one breaker state for the whole target, every backend's breaker
\* takes the result
CallStepPerTarget(c, outcome) ==
    /\ c \in DOMAIN inflight
    /\ inflight' = inflight (-) SetToBag({c})
    /\ backends' = [j \in DOMAIN backends |->
                        [backends[j] EXCEPT !.cb =
                            afterRequest(@, c.generation, IsSuccessful(outcome), now)]]
    /\ UNCHANGED now

CallStep(c, outcome) ==
    /\ c \in DOMAIN inflight
    /\ inflight' = inflight (-) SetToBag({c})
    /\ backends' = [backends EXCEPT ![c.backend].cb =
                        afterRequest(@, c.generation, IsSuccessful(outcome), now)]
    /\ UNCHANGED now

CallReturns(c, outcome) ==
    /\ UNCHANGED nonRouterVars
    /\ CallStep(c, outcome)

\* time passes; the http.Client ends a call at the latest ClientTimeout after
\* its start, and the start of a call is the instant of its admission
Tick(d) ==
    /\ UNCHANGED nonRouterVars
    /\ now + d <= MaxClock
    /\ \A c \in DOMAIN inflight : now + d <= c.start + ClientTimeout
    /\ now' = now + d
    /\ UNCHANGED <<backends, inflight>>

NextRouter ==
    \/ \E i \in DOMAIN backends : RouteRequest(i)
    \/ \E c \in DOMAIN inflight, outcome \in Outcomes : CallReturns(c, outcome)
    \/ \E d \in Delays : Tick(d)

\* RegisterBackend called while the router serves: the URLs a caller may pass
\* (a URL already on the list included) and the longest list explored
MaxBackends == 3
RegisterURLs == {BackendURLs[n] : n \in DOMAIN BackendURLs}

Register(url) ==
    /\ UNCHANGED <<batchVars, gatewayVars, handlerVars, traceVars, metaVars, selectVars, lockVars, configVars, authVars>>
    /\ Len(backends) < MaxBackends
    /\ backends' = RegisterBackend(backends, url, now)
    /\ deregistered' = deregistered \ {url}
    /\ UNCHANGED <<inflight, now>>

\* lookup: r.backends[model][version], as RouteRequest reads it
Lookup(list) == {list[i].url : i \in DOMAIN list}

\* ModelRouter has RegisterBackend, RouteRequest, selectBackend and
\* executeRequest and nothing that takes a backend off a list; the router's
\* HTTP surface has no such route either.  An operator who wants url gone can
\* only ask: the registry stays as it is.
Deregister(url) ==
    /\ UNCHANGED <<batchVars, gatewayVars, routerVars, handlerVars, traceVars, metaVars, selectVars, lockVars, configVars, authVars>>
    /\ url \in Lookup(backends)
    /\ deregistered' = deregistered \cup {url}

InitRegistry == deregistered = {}

NextRegistry ==
    \/ \E url \in RegisterURLs : Register(url)
    \/ \E url \in RegisterURLs : Deregister(url)
    \/ \E i \in DOMAIN backends : RouteRequest(i)
    \/ \E c \in DOMAIN inflight, outcome \in Outcomes : CallReturns(c, outcome)

\* registrations and requests against backends that answer every call with 500
NextFailing ==
    \/ \E url \in RegisterURLs : Register(url)
    \/ \E i \in DOMAIN backends : RouteRequest(i)
    \/ \E c \in DOMAIN inflight : CallReturns(c, "500")

\* a stream of requests for the target whose selections are counted: the
\* count of a backend restarts when selectBackend returns it and grows by one
\* with every request that goes to another backend (counted up to one past
\* StarvationBound)
StarvationBound == 3

InitSelect == sinceSelected = [i \in DOMAIN backends |-> 0]

CountedRequest(i) ==
    /\ UNCHANGED <<batchVars, gatewayVars, registryVars, handlerVars, traceVars, metaVars, lockVars, configVars, authVars>>
    /\ RouteStep(i)
    /\ sinceSelected' = [j \in DOMAIN sinceSelected |->
                            IF j = i THEN 0
                            ELSE IF sinceSelected[j] > StarvationBound
                                 THEN sinceSelected[j]
                                 ELSE sinceSelected[j] + 1]

\* every backend call of the stream succeeds
NextSelect ==
    \/ \E i \in DOMAIN backends : CountedRequest(i)
    \/ \E c \in DOMAIN inflight : CallReturns(c, "200")
    \/ \E d \in Delays : Tick(d)

(***************************************************************************)
(* Gateway, RealTimeInference (handlers/inference.go): the request is      *)
(* forwarded to the router's /v1/route (RouteInference), whose RouteRequest *)
(* looks the target up, selects a backend and calls it under its breaker.  *)
(* The list `backends` is the registry entry of RegisteredModel /          *)
(* RegisteredVersion; no other target has an entry.                        *)
(***************************************************************************)
RegisteredModel == "resnet18"
RegisteredVersion == "v1"
Models == {"resnet18", "nonexistent"}
Versions == {"", "v1", "v9"}
\* if req.Version == "" { req.Version = "v1" }, in the gateway and in the router
DefaultVersion(v) == IF v = "" THEN "v1" ELSE v

ErrModelNotFound == "model not found"
ErrVersionNotFound == "version not found"

\* the registry lookup of RouteRequest
LookupErr(model, version) ==
    IF model # RegisteredModel THEN ErrModelNotFound
    ELSE IF version # RegisteredVersion \/ Len(backends) = 0 THEN ErrVersionNotFound
    ELSE ErrNone

\* RealTimeInference answers with the router's status
GatewayStatus(routerStatus) == routerStatus

NoReply == [model |-> "none", version |-> "none", status |-> 0, err |-> ErrNone]
Reply(model, version, err) ==
    [model |-> model, version |-> version, status |-> GatewayStatus(HTTPStatus(err)),
     err |-> err]

\* requestID := uuid.New().String(); the field or header of a message that
\* carries no request id; a hop that has not happened
RequestIds == {"r1"}
NoRequestID == ""
NoHop == "n/a"

\* routerReq["request_id"] and the X-Request-ID header of the forwarded request
RouterRequestID(rid) == rid
\* executeRequest: reqBody holds model, version and input, the only header set
\* is Content-Type
BackendRequestID(rid) == NoRequestID
\* InferenceResponse.RequestID on 200; gin.H{"error": ...} otherwise
ResponseRequestID(rid, status) == IF status = 200 THEN rid ELSE NoRequestID

InitTrace ==
    correlation = [request_id |-> NoHop, router |-> NoHop, backend |-> NoHop,
                   response |-> NoHop]

\* RealTimeInference up to the start of the backend call, or up to its answer
\* when the router fails the request before any backend call
SyncRoute(rid, model, version, i) ==
    /\ UNCHANGED nonSyncVars
    /\ LET v == DefaultVersion(version)
           err == LookupErr(model, v)
           rejected == beforeRequestErr(backends[i].cb, now)
       IN IF err # ErrNone
          THEN /\ syncReply' = Reply(model, v, err)
               /\ correlation' = [correlation EXCEPT
                                     !.request_id = rid,
                                     !.router = RouterRequestID(rid),
                                     !.response = ResponseRequestID(rid, Reply(model, v, err).status)]
               /\ UNCHANGED routerVars
          ELSE /\ RouteStep(i)
               /\ syncReply' = IF rejected # ErrNone
                               THEN Reply(model, v, rejected)
                               ELSE syncReply
               /\ correlation' =
                     IF rejected # ErrNone
                     THEN [correlation EXCEPT
                             !.request_id = rid,
                             !.router = RouterRequestID(rid),
                             !.response = ResponseRequestID(rid, Reply(model, v, rejected).status)]
                     ELSE [correlation EXCEPT
                             !.request_id = rid,
                             !.router = RouterRequestID(rid),
                             !.backend = BackendRequestID(rid)]

\* the backend call returns, the router answers and the gateway answers
SyncReturn(rid, c, outcome) ==
    /\ UNCHANGED nonSyncVars
    /\ CallStep(c, outcome)
    /\ LET reply == Reply(RegisteredModel, RegisteredVersion,
                          IF IsSuccessful(outcome) THEN ErrNone ELSE outcome)
       IN /\ syncReply' = reply
          /\ correlation' = [correlation EXCEPT
                                !.response = ResponseRequestID(rid, reply.status)]

NextSync ==
    \/ \E rid \in RequestIds, model \in Models, version \in Versions, i \in DOMAIN backends :
          SyncRoute(rid, model, version, i)
    \/ \E rid \in RequestIds, c \in DOMAIN inflight, outcome \in Outcomes :
          SyncReturn(rid, c, outcome)

(***************************************************************************)
(* Part III - gateway, RateLimit middleware (middleware/ratelimit.go): a   *)
(* Redis counter per principal, incremented by every request; the request  *)
(* that finds the counter at 1 sets the key's time to live to the window.  *)
(***************************************************************************)
Principals == {"alice"}
\* the limit RateLimit is configured with (main passes 100; the tests 5, 10, 100)
Limit == 3
\* the window RateLimit is configured with: time.Minute
Window == 60
\* the model stops incrementing a counter this far above the limit
MaxOverLimit == 1
\* most requests inside the middleware at once
MaxPending == 2
\* most requests the model lets pass while Redis is down
MaxFailOpen == 1

\* a key without time to live; the absent key
NoTTL == -1
NoKey == [count |-> 0, expiry |-> NoTTL]

\* Redis drops a key whose time to live has elapsed
Live(k, t) == IF k.expiry # NoTTL /\ t >= k.expiry THEN NoKey ELSE k

\* INCR: an absent key is created with value 1 and no time to live
Incr(k, t) == [Live(k, t) EXCEPT !.count = @ + 1]

\* EXPIRE key window: no effect on an absent key
Expire(k, t, w) ==
    IF Live(k, t).count = 0 THEN Live(k, t) ELSE [Live(k, t) EXCEPT !.expiry = t + w]

\* if count > int64(limit): 429 with X-RateLimit-Remaining 0; else the request
\* passes with X-RateLimit-Remaining limit - count
Exceeded(count, limit) == count > limit
RateLimitResponse(count, limit) ==
    IF Exceeded(count, limit) THEN [status |-> 429, remaining |-> 0]
    ELSE [status |-> 200, remaining |-> limit - count]

\* a response header that is not set
NoHeader == -1
NoHeaders == [limit |-> NoHeader, remaining |-> NoHeader, reset |-> NoHeader]
\* the X-RateLimit-* headers of the response: on 429 Limit, Remaining "0" and
\* Reset = time.Now().Add(window).Unix(); on the passing path Limit and
\* Remaining = limit - int(count)
RateLimitHeaders(count, limit, t, w) ==
    IF Exceeded(count, limit)
    THEN [limit |-> limit, remaining |-> 0, reset |-> t + w]
    ELSE [limit |-> limit, remaining |-> limit - count, reset |-> NoHeader]

\* the INCR error answered by the throttle itself
IncrErrorAborts(t) ==
    [t |-> t, counted |-> FALSE, count |-> 0, headers |-> NoHeaders, status |-> 503]

\* if err != nil { c.Next(); return }: the request passes to the handler, not
\* counted and with no rate-limit header
IncrError(t) ==
    [t |-> t, counted |-> FALSE, count |-> 0, headers |-> NoHeaders, status |-> 200]

\* c.Set("user_id", "demo-user") for the development credential
DemoUser == "demo-user"

\* c.ClientIP(), the key of a request without user_id
ClientIP == "ip1"

\* the values the rate-limit key is built from
Keys == Principals \cup {DemoUser, ClientIP}

FailOpens(p) == Cardinality({i \in DOMAIN admissions[p] : ~admissions[p][i].counted})

InitGateway ==
    /\ rlKeys = [p \in Keys |-> NoKey]
    /\ rlReqs = {}
    /\ admissions = [p \in Keys |-> <<>>]
    /\ syncReply = NoReply

\* count, err := redisClient.Incr(ctx, key).Result()
IncrStep(p) ==
    /\ Cardinality(rlReqs) < MaxPending
    /\ Live(rlKeys[p], now).count < Limit + MaxOverLimit
    /\ rlKeys' = [rlKeys EXCEPT ![p] = Incr(@, now)]
    /\ rlReqs' = rlReqs \cup {[principal |-> p, count |-> Incr(rlKeys[p], now).count,
                               at |-> now,
                               pc |-> IF Incr(rlKeys[p], now).count = 1
                                      THEN "expire" ELSE "check"]}
    /\ UNCHANGED <<admissions, now>>

RateLimitIncr(p) ==
    /\ UNCHANGED nonGatewayVars
    /\ IncrStep(p)
    /\ UNCHANGED syncReply

\* the INCR fails (Redis is down): the request passes
RateLimitFailOpen(p) ==
    /\ UNCHANGED nonGatewayVars
    /\ FailOpens(p) < MaxFailOpen
    /\ admissions' = [admissions EXCEPT ![p] = Append(@, IncrError(now))]
    /\ UNCHANGED <<rlKeys, rlReqs, syncReply, now>>

\* if count == 1 { redisClient.Expire(ctx, key, window) }; its result is ignored
RateLimitExpire(r, ok) ==
    /\ UNCHANGED nonGatewayVars
    /\ r \in rlReqs
    /\ r.pc = "expire"
    /\ rlKeys' = [rlKeys EXCEPT ![r.principal] = IF ok THEN Expire(@, now, Window) ELSE @]
    /\ rlReqs' = (rlReqs \ {r}) \cup {[r EXCEPT !.pc = "check"]}
    /\ UNCHANGED <<admissions, syncReply, now>>

\* the check of the count against the limit: 429 and Abort, or c.Next()
RateLimitCheck(r) ==
    /\ UNCHANGED nonGatewayVars
    /\ r \in rlReqs
    /\ r.pc = "check"
    /\ rlReqs' = rlReqs \ {r}
    /\ admissions' = IF RateLimitResponse(r.count, Limit).status = 429 THEN admissions
                     ELSE [admissions EXCEPT ![r.principal] =
                              Append(@, [t |-> now, counted |-> TRUE, count |-> r.count,
                                          headers |-> RateLimitHeaders(r.count, Limit, now, Window),
                                          status |-> RateLimitResponse(r.count, Limit).status])]
    /\ UNCHANGED <<rlKeys, syncReply, now>>

NextThrottle ==
    \/ \E p \in Principals : RateLimitIncr(p)
    \/ \E p \in Principals : RateLimitFailOpen(p)
    \/ \E r \in rlReqs, ok \in BOOLEAN : RateLimitExpire(r, ok)
    \/ \E r \in rlReqs : RateLimitCheck(r)
    \/ \E d \in Delays : Tick(d)

(***************************************************************************)
(* The /v1 group: Auth, then RateLimit, then the handler.  A header is the *)
(* list of the parts strings.Split(authHeader, " ") returns; a token is    *)
(* the development credential, a JWT signed with the configured secret, or *)
(* anything else.                                                          *)
(***************************************************************************)
MaxServes == 3

NoUser == ""

AuthHeaders == {<<>>, <<"demo-token">>, <<"Bearer", "jwt-alice">>, <<"Bearer", "jwt-forged">>}

\* the tokens jwt.ParseWithClaims accepts, with their user_id claim
SignedClaims == [t \in {"jwt-alice"} |-> "alice"]

TokenOf(h) ==
    IF Len(h) = 2 /\ h[1] = "Bearer" THEN h[2]
    ELSE IF Len(h) = 1 THEN h[1]
    ELSE "unparsable"

\* Auth that lets a request without Authorization header through
AuthAllowsMissing(h) ==
    IF h = <<>> THEN [status |-> 200, user_id |-> NoUser]
    ELSE IF TokenOf(h) = "demo-token" THEN [status |-> 200, user_id |-> DemoUser]
    ELSE IF TokenOf(h) \in DOMAIN SignedClaims
         THEN [status |-> 200, user_id |-> SignedClaims[TokenOf(h)]]
    ELSE [status |-> 401, user_id |-> NoUser]

Auth(h) ==
    IF h = <<>> THEN [status |-> 401, user_id |-> NoUser]
    ELSE IF TokenOf(h) = "demo-token" THEN [status |-> 200, user_id |-> DemoUser]
    ELSE IF TokenOf(h) \in DOMAIN SignedClaims
         THEN [status |-> 200, user_id |-> SignedClaims[TokenOf(h)]]
    ELSE [status |-> 401, user_id |-> NoUser]

\* RateLimit: user_id from the context, else c.ClientIP()
RateLimitKey(a) == IF a.user_id # NoUser THEN a.user_id ELSE ClientIP

InitAuth == served = [n |-> 0, header |-> <<>>, status |-> 0, key |-> NoUser]

\* one request to a /v1 route: Auth answers 401 and aborts the chain, or the
\* request goes on to RateLimit, whose first step is the INCR
Serve(h) ==
    /\ UNCHANGED nonAuthVars
    /\ served.n < MaxServes
    /\ LET a == Auth(h)
       IN IF a.status = 401
          THEN /\ served' = [n |-> served.n + 1, header |-> h, status |-> 401, key |-> NoUser]
               /\ UNCHANGED <<rlKeys, rlReqs, admissions, now>>
          ELSE /\ served' = [n |-> served.n + 1, header |-> h, status |-> a.status,
                              key |-> RateLimitKey(a)]
               /\ RateLimitKey(a) \in Keys
               /\ IncrStep(RateLimitKey(a))

NextAuth ==
    \/ \E h \in AuthHeaders : Serve(h)
    \/ \E r \in rlReqs, ok \in BOOLEAN : RateLimitExpire(r, ok)
    \/ \E r \in rlReqs : RateLimitCheck(r)

(***************************************************************************)
(* Part IV - metadata service (handlers/model_handler.go, cache/           *)
(* model_cache.go, repository/model_repository.go).  Every request runs in *)
(* its own goroutine; the steps of a handler are its calls to the          *)
(* repository and to the cache, and the calls of concurrent requests       *)
(* interleave.  A cache error is logged and the handler goes on.           *)
(***************************************************************************)
ModelIds == {"m1", "m2"}
\* most GetModel requests between their cache lookup and their answer
MaxGets == 2

NoGetReply == [id |-> "none", status |-> 0, afterDelete |-> FALSE, cacheFailed |-> FALSE]
GetReply(id, status, afterDelete, failed) ==
    [id |-> id, status |-> status, afterDelete |-> afterDelete, cacheFailed |-> failed]

\* ModelCache.Set / Delete on the key set; ok is the outcome of the Redis call
CacheSet(c, id, ok) == IF ok THEN c \cup {id} ELSE c
CacheDelete(c, id, ok) == IF ok THEN c \ {id} ELSE c

InitMeta ==
    /\ repo = {}
    /\ cache = {}
    /\ gets = {}
    /\ dels = {}
    /\ created = {}
    /\ deleted = {}
    /\ cacheFailed = FALSE
    /\ getReply = NoGetReply

\* CreateModel: repo.Create under a fresh uuid, then cache.Set
CreateModel(id, ok) ==
    /\ UNCHANGED nonMetaVars
    /\ id \notin created
    /\ created' = created \cup {id}
    /\ repo' = repo \cup {id}
    /\ cache' = CacheSet(cache, id, ok)
    /\ cacheFailed' = (cacheFailed \/ ~ok)
    /\ UNCHANGED <<gets, dels, deleted, getReply>>

\* GetModel, h.cache.Get: a hit is answered 200; on a miss or a cache error
\* the handler goes to the database
GetModelCache(id, ok) ==
    /\ UNCHANGED nonMetaVars
    /\ id \in created
    /\ cacheFailed' = (cacheFailed \/ ~ok)
    /\ IF ok /\ id \in cache
       THEN /\ getReply' = GetReply(id, 200, id \in deleted, cacheFailed')
            /\ UNCHANGED gets
       ELSE /\ Cardinality(gets) < MaxGets
            /\ gets' = gets \cup {[id |-> id, pc |-> "db", afterDelete |-> id \in deleted]}
            /\ UNCHANGED getReply
    /\ UNCHANGED <<repo, cache, dels, created, deleted>>

\* GetModel, h.repo.GetByID: no row is answered 404
GetModelRepo(g) ==
    /\ UNCHANGED nonMetaVars
    /\ g \in gets
    /\ g.pc = "db"
    /\ IF g.id \in repo
       THEN /\ gets' = (gets \ {g}) \cup {[g EXCEPT !.pc = "set"]}
            /\ UNCHANGED getReply
       ELSE /\ gets' = gets \ {g}
            /\ getReply' = GetReply(g.id, 404, g.afterDelete, cacheFailed)
    /\ UNCHANGED <<repo, cache, dels, created, deleted, cacheFailed>>

\* GetModel, h.cache.Set of the row read, then 200
GetModelSet(g, ok) ==
    /\ UNCHANGED nonMetaVars
    /\ g \in gets
    /\ g.pc = "set"
    /\ cache' = CacheSet(cache, g.id, ok)
    /\ cacheFailed' = (cacheFailed \/ ~ok)
    /\ gets' = gets \ {g}
    /\ getReply' = GetReply(g.id, 200, g.afterDelete, cacheFailed')
    /\ UNCHANGED <<repo, dels, created, deleted>>

\* DeleteModel, h.repo.Delete: without a row the handler answers 500 and
\* changes nothing
DeleteModelRepo(id) ==
    /\ UNCHANGED nonMetaVars
    /\ id \in repo
    /\ repo' = repo \ {id}
    /\ dels' = dels \cup {id}
    /\ UNCHANGED <<cache, gets, created, deleted, cacheFailed, getReply>>

\* DeleteModel, h.cache.Delete (an error is logged), then 200
DeleteModelInvalidate(id, ok) ==
    /\ UNCHANGED nonMetaVars
    /\ id \in dels
    /\ cache' = CacheDelete(cache, id, ok)
    /\ cacheFailed' = (cacheFailed \/ ~ok)
    /\ dels' = dels \ {id}
    /\ deleted' = deleted \cup {id}
    /\ UNCHANGED <<repo, gets, created, getReply>>

\* the entry's time to live (15 minutes) runs out
CacheExpire(id) ==
    /\ UNCHANGED nonMetaVars
    /\ id \in cache
    /\ cache' = cache \ {id}
    /\ UNCHANGED <<repo, gets, dels, created, deleted, cacheFailed, getReply>>

NextMeta ==
    \/ \E id \in ModelIds, ok \in BOOLEAN : CreateModel(id, ok)
    \/ \E id \in ModelIds, ok \in BOOLEAN : GetModelCache(id, ok)
    \/ \E g \in gets : GetModelRepo(g)
    \/ \E g \in gets, ok \in BOOLEAN : GetModelSet(g, ok)
    \/ \E id \in ModelIds : DeleteModelRepo(id)
    \/ \E id \in ModelIds, ok \in BOOLEAN : DeleteModelInvalidate(id, ok)
    \/ \E id \in ModelIds : CacheExpire(id)

(***************************************************************************)
(* The router's locks.  RouteRequest and RegisterBackend step by step:     *)
(* r.mu is the registry RWMutex, backend.mu the mutex of one Backend.  A   *)
(* goroutine between RouteExecute and RouteResponse is inside client.Do,   *)
(* the suspension point of the request.                                    *)
(***************************************************************************)
RouteGoroutines == {"q1", "q2"}

NoCall == Call(0, 0, 0)

\* no backend index
NoBackend == NoCall.backend

\* requests one goroutine serves, one after the other
MaxServed == 1

Parked == [pc |-> "idle", call |-> NoCall, outcome |-> "", bmu |-> NoBackend, served |-> 0]

\* sync.RWMutex: RLock waits for the writer, Lock for the writer and the readers
NoHolder == [readers |-> {}, writer |-> {}]

CanRLock(m) == m.writer = {}

CanLock(m) == m.writer = {} /\ m.readers = {}

RLock(m, g) == [m EXCEPT !.readers = @ \cup {g}]

\* r.mu.RUnlock() stays out: the read lock is kept until RouteRequest returns
RUnlockDeferred(m, g) == m

RUnlock(m, g) == [m EXCEPT !.readers = @ \ {g}]

\* the outcomes after which executeRequest updates the Backend under backend.mu
TakesBackendLock(outcome) == outcome \in {"transport", "200"}

BackendLockFree(i) == \A q \in RouteGoroutines : routine[q].bmu # i

\* a response of each kind: one that takes backend.mu, one that does not
LockOutcomes == {"200", "500"}

InitLocks ==
    /\ mu = NoHolder
    /\ routine = [q \in RouteGoroutines |-> Parked]
    /\ registering = "idle"

\* r.mu.RLock()
RouteRLock(q) ==
    /\ UNCHANGED nonLockVars
    /\ routine[q].pc = "idle"
    /\ routine[q].served < MaxServed
    /\ CanRLock(mu)
    /\ mu' = RLock(mu, q)
    /\ routine' = [routine EXCEPT ![q].pc = "lookup", ![q].served = @ + 1]
    /\ UNCHANGED <<routerVars, registering>>

\* the two map reads, then r.mu.RUnlock() on each of the three paths
RouteRUnlock(q) ==
    /\ UNCHANGED nonLockVars
    /\ routine[q].pc = "lookup"
    /\ mu' = RUnlock(mu, q)
    /\ routine' = [routine EXCEPT ![q].pc = IF Len(backends) = 0 THEN "idle" ELSE "select"]
    /\ UNCHANGED <<routerVars, registering>>

\* selectBackend, then Execute: beforeRequest and, when admitted, client.Do starts
RouteExecute(q, i) ==
    /\ UNCHANGED nonLockVars
    /\ routine[q].pc = "select"
    /\ RouteStep(i)
    /\ routine' = IF beforeRequestErr(backends[i].cb, now) = ErrNone
                  THEN [routine EXCEPT ![q].pc = "calling",
                                       ![q].call = Call(i, backends'[i].cb.generation, now)]
                  ELSE [routine EXCEPT ![q].pc = "idle"]
    /\ UNCHANGED <<mu, registering>>

\* client.Do returns; on a transport error and on a decoded 200 backend.mu.Lock()
RouteResponse(q, outcome) ==
    /\ UNCHANGED nonLockVars
    /\ routine[q].pc = "calling"
    /\ IF TakesBackendLock(outcome)
       THEN /\ BackendLockFree(routine[q].call.backend)
            /\ routine' = [routine EXCEPT ![q].pc = "update", ![q].outcome = outcome,
                                          ![q].bmu = routine[q].call.backend]
       ELSE routine' = [routine EXCEPT ![q].pc = "after", ![q].outcome = outcome]
    /\ UNCHANGED <<routerVars, mu, registering>>

\* the Backend's fields are written, then backend.mu.Unlock()
RouteBackendUnlock(q) ==
    /\ UNCHANGED nonLockVars
    /\ routine[q].pc = "update"
    /\ routine' = [routine EXCEPT ![q].pc = "after", ![q].bmu = NoBackend]
    /\ UNCHANGED <<routerVars, mu, registering>>

\* executeRequest has returned: Execute runs afterRequest, RouteRequest returns
RouteAfter(q) ==
    /\ UNCHANGED nonLockVars
    /\ routine[q].pc = "after"
    /\ CallStep(routine[q].call, routine[q].outcome)
    /\ routine' = [routine EXCEPT ![q] = [Parked EXCEPT !.served = routine[q].served]]
    /\ UNCHANGED <<mu, registering>>

\* RegisterBackend: r.mu.Lock()
RegisterLock ==
    /\ UNCHANGED nonLockVars
    /\ registering = "idle"
    /\ Len(backends) < MaxBackends
    /\ CanLock(mu)
    /\ mu' = [mu EXCEPT !.writer = {"g"}]
    /\ registering' = "locked"
    /\ UNCHANGED <<routerVars, routine>>

\* the append, then the deferred r.mu.Unlock()
RegisterUnlock(url) ==
    /\ UNCHANGED <<batchVars, gatewayVars, handlerVars, traceVars, metaVars, selectVars, configVars, authVars>>
    /\ registering = "locked"
    /\ backends' = RegisterBackend(backends, url, now)
    /\ deregistered' = deregistered \ {url}
    /\ mu' = [mu EXCEPT !.writer = {}]
    /\ registering' = "idle"
    /\ UNCHANGED <<inflight, now, routine>>

NextLocks ==
    \/ \E q \in RouteGoroutines : RouteRLock(q)
    \/ \E q \in RouteGoroutines : RouteRUnlock(q)
    \/ \E q \in RouteGoroutines : \E i \in DOMAIN backends : RouteExecute(q, i)
    \/ \E q \in RouteGoroutines : \E outcome \in LockOutcomes : RouteResponse(q, outcome)
    \/ \E q \in RouteGoroutines : RouteBackendUnlock(q)
    \/ \E q \in RouteGoroutines : RouteAfter(q)
    \/ RegisterLock
    \/ \E url \in RegisterURLs : RegisterUnlock(url)

InitServices == InitBatch /\ InitRouter /\ InitGateway /\ InitRegistry /\ InitHandlers /\ InitTrace /\ InitMeta /\ InitSelect /\ InitLocks /\ InitAuth

\* NewPool(size, ...): the batch worker is started with its configured pool size
Init == InitServices /\ size = PoolSize

\* the batch worker started with any pool size from 1 up to PoolSize
InitAnySize == InitServices /\ size \in 1..PoolSize

SpecBatch == Init /\ [][NextBatch]_vars

SpecConsumer == Init /\ [][NextConsumer]_vars

SpecExecutor == Init /\ [][NextExecutor]_vars

SpecRouter == Init /\ [][NextRouter]_vars

\* the router in front of a backend that answers every call with a client
\* error (status 400)
NextRouter4xx ==
    \/ \E i \in DOMAIN backends : RouteRequest(i)
    \/ \E c \in DOMAIN inflight : CallReturns(c, "400")
    \/ \E d \in Delays : Tick(d)

SpecRouter4xx == Init /\ [][NextRouter4xx]_vars

SpecSync == Init /\ [][NextSync]_vars

SpecRegistry == Init /\ [][NextRegistry]_vars

SpecSubmit == Init /\ [][NextSubmit]_vars

SpecPoll == Init /\ [][NextPoll]_vars

SpecMeta == Init /\ [][NextMeta]_vars

SpecSelect == Init /\ [][NextSelect]_vars

SpecFailing == Init /\ [][NextFailing]_vars

SpecLocks == Init /\ [][NextLocks]_vars

SpecAnySize == InitAnySize /\ [][NextBatch]_vars

\* the steps of ProcessJob and of the goroutines it starts
RunStep ==
    \/ \E ok \in IoOutcomes : SetProcessing(ok)
    \/ SenderSend
    \/ SenderAbort
    \/ SenderClose
    \/ WorkerTake
    \/ WorkerExit
    \/ \E i \in 1..MaxItems, ok \in BOOLEAN : WorkerFinish(i, ok)
    \/ \E i \in 1..MaxItems : WorkerDrop(i)
    \/ CloseResults
    \/ \E ok \in IoOutcomes : Collect(ok)
    \/ CollectEnd
    \/ \E ok \in IoOutcomes : Upload(ok)
    \/ \E ok \in IoOutcomes : UploadFailedStatus(ok)
    \/ \E ok \in IoOutcomes : FinalUpdate(ok)

\* the Go scheduler runs every goroutine that can take a step, and every item
\* call and store call returns: a run that can step does step
\* one delivery of each message, its run, and cancellation at any point
NextReturns ==
    \/ \E id \in JobIds, inputs \in InputVectors : Publish(id, inputs)
    \/ \E id \in JobIds, ok \in IoOutcomes : ConsumeCreate(id, ok)
    \/ \E ok \in IoOutcomes : SetProcessing(ok)
    \/ SenderSend
    \/ SenderAbort
    \/ SenderClose
    \/ WorkerTake
    \/ WorkerExit
    \/ \E i \in 1..MaxItems, ok \in BOOLEAN : WorkerFinish(i, ok)
    \/ \E i \in 1..MaxItems : WorkerDrop(i)
    \/ CloseResults
    \/ \E ok \in IoOutcomes : Collect(ok)
    \/ CollectEnd
    \/ \E ok \in IoOutcomes : Upload(ok)
    \/ \E ok \in IoOutcomes : UploadFailedStatus(ok)
    \/ \E ok \in IoOutcomes : FinalUpdate(ok)
    \/ ConsumeMark
    \/ Cancel

SpecReturns == InitAnySize /\ [][NextReturns]_vars /\ WF_vars(RunStep)

\* the requests of one moment: the throttle with a store that may fail on any
\* call, while the clock stands
NextFailOpen ==
    \/ \E p \in Principals : RateLimitIncr(p)
    \/ \E p \in Principals : RateLimitFailOpen(p)
    \/ \E r \in rlReqs, ok \in BOOLEAN : RateLimitExpire(r, ok)
    \/ \E r \in rlReqs : RateLimitCheck(r)

SpecFailOpen == Init /\ [][NextFailOpen]_vars

SpecAuth == Init /\ [][NextAuth]_vars

SpecThrottle == Init /\ [][NextThrottle]_vars

(***************************************************************************)
(* Properties of the batch job coordinator.                                *)
(***************************************************************************)
IsFull(manifest, inputs) ==
    /\ Len(manifest) = Len(inputs)
    /\ \A i \in 1..Len(inputs) : manifest[i] # NilSlot

\* C1: for every job finished with status completed, the uploaded manifest has
\* manifest[i].input = job.Inputs[i] for every index i, whatever the order in
\* which the workers finished their items.
C1_ManifestOrder ==
    \A id \in DOMAIN jobs :
        jobs[id].status = StatusCompleted =>
            /\ id \in DOMAIN objstore
            /\ Len(objstore[id]) = Len(topic[id])
            /\ \A i \in 1..Len(topic[id]) : objstore[id][i].input = topic[id][i]

\* a completed job with two different inputs whose results arrived in reverse order
C1_Witness ==
    /\ "j1" \in DOMAIN jobs
    /\ jobs["j1"].status = StatusCompleted
    /\ Len(topic["j1"]) = 2
    /\ topic["j1"][1] # topic["j1"][2]
    /\ arrivals = <<2, 1>>

\* C2: with a context that is not cancelled every input index receives exactly one
\* result: the buffer handed to the object store has N entries, none empty, none
\* written twice, also when item calls fail; every manifest in the object store has
\* N non-empty entries.
C2_ExactlyOneResult ==
    /\ \A i \in DOMAIN slotWrites : slotWrites[i] <= 1
    /\ (pc = "upload" /\ ~ctxCancelled) =>
            /\ IsFull(results, Inputs)
            /\ completed = TotalItems
            /\ \A i \in 1..TotalItems : slotWrites[i] = 1
    /\ \A id \in DOMAIN objstore : IsFull(objstore[id], topic[id])

\* a manifest of two entries in the object store, one of them a failed item
C2_Witness ==
    /\ "j1" \in DOMAIN objstore
    /\ Len(objstore["j1"]) = 2
    /\ objstore["j1"][1].error # ""
    /\ objstore["j1"][2].error = ""

ExpectedStatus(errs, total) == IF errs < total THEN StatusCompleted ELSE StatusFailed
runReturned == pc \in {"returned", "returned_ok"}
runDrained == runReturned /\ TotalItems >= 1 /\ completed = TotalItems

C5_ProgressMonotonic ==
    [][\A id \in DOMAIN jobs :
          /\ id \in DOMAIN jobs'
          /\ jobs'[id].completed >= jobs[id].completed
          /\ ProgressLeq(jobs[id].progress, jobs'[id].progress)]_vars

\* the message of a job whose row shows progress is delivered once more
C5_Witness ==
    /\ "j1" \in DOMAIN jobs
    /\ jobs["j1"].completed >= 1
    /\ pc = "idle"
    /\ marked["j1"] = 2

\* C6: for every job row completed <= total_items and progress = completed /
\* total_items, stated without division as progress * total_items = completed.
C6_ProgressFraction ==
    \A id \in DOMAIN jobs :
        LET j == jobs[id] IN
        /\ j.total_items = Len(topic[id])
        /\ 0 <= j.completed /\ j.completed <= j.total_items
        /\ j.progress[2] > 0
        /\ j.progress[1] * j.total_items = j.completed * j.progress[2]

\* a row with one of two items checkpointed
C6_Witness ==
    /\ "j1" \in DOMAIN jobs
    /\ jobs["j1"].completed = 1
    /\ jobs["j1"].total_items = 2

\* C7: a job observed completed has a non-empty result_url and its manifest is in
\* the object store already.
C7_CompletedHasManifest ==
    \A id \in DOMAIN jobs :
        jobs[id].status = StatusCompleted =>
            /\ jobs[id].result_url # ""
            /\ jobs[id].result_url = ResultURL(id)
            /\ id \in DOMAIN objstore

\* a completed job
C7_Witness ==
    /\ "j1" \in DOMAIN jobs
    /\ jobs["j1"].status = StatusCompleted
    /\ jobs["j1"].result_url # ""

\* C8: a job observed in a terminal state after all its N items drained has
\* completed = total_items in the job store.
C8_TerminalAllCounted ==
    (runDrained /\ jobs[cur].status \in Terminal) =>
        jobs[cur].completed = jobs[cur].total_items

(***************************************************************************)
(* Claims about the router's circuit breakers.                             *)
(***************************************************************************)
OpenUnexpired(i) ==
    /\ backends[i].cb.state = StateOpen
    /\ now < backends[i].cb.openedAt + Timeout

\* C9: once a backend's breaker has turned open at time t, until t + 30 s a
\* request routed to that backend gets the breaker's open-state error, which
\* the route handler answers with 503, and no step starts a backend call at
\* that backend; this covers the case that all breakers of the target are open.
C9_OpenRejects ==
    [][\A i \in DOMAIN backends :
          OpenUnexpired(i) =>
              /\ beforeRequestErr(backends[i].cb, now) = ErrOpenState
              /\ HTTPStatus(beforeRequestErr(backends[i].cb, now)) = 503
              /\ InflightAt(inflight', i) <= InflightAt(inflight, i)]_vars

\* every breaker of the target is open, one of them for 20 s already
C9_Witness ==
    /\ \A i \in DOMAIN backends : OpenUnexpired(i)
    /\ \E i \in DOMAIN backends : now >= backends[i].cb.openedAt + 20

\* C10: while a backend's breaker is half-open at most 3 calls to that
\* backend are in flight, and with 3 in flight the next request to it is
\* rejected by the breaker, so that no further call starts.
C10_HalfOpenBudget ==
    \A i \in DOMAIN backends :
        currentState(backends[i].cb, now).state = StateHalfOpen =>
            /\ InflightAt(inflight, i) <= MaxRequests
            /\ InflightAt(inflight, i) = MaxRequests =>
                   /\ beforeRequestErr(backends[i].cb, now) = ErrTooManyRequests
                   /\ beforeRequest(backends[i].cb, now) = backends[i].cb

\* a half-open breaker with the whole budget in flight
C10_Witness ==
    \E i \in DOMAIN backends :
        /\ backends[i].cb.state = StateHalfOpen
        /\ InflightAt(inflight, i) = MaxRequests

\* C11: 4xx responses are not counted as breaker failures, so that no sequence
\* of 4xx responses moves a breaker from closed to open: against a backend that
\* answers only 400 every breaker stays closed.
C11_ClientErrorsNeverTrip ==
    \A i \in DOMAIN backends : backends[i].cb.state = StateClosed

\* C12: the consumer marks the message of a job only when the job store holds
\* the job in a terminal status: no step marks a message whose job is absent,
\* pending or processing.
C12_AckAfterTerminal ==
    [][\A id \in JobIds :
          marked'[id] > marked[id] =>
              /\ id \in DOMAIN jobs
              /\ jobs[id].status \in Terminal]_vars

\* C13: calling the executor for a job whose stored status is completed or
\* failed is a no-op: no step changes the row (status, result reference, error
\* summary, progress) or the stored manifest of a job that is terminal, and no
\* item of such a job is handed to a worker.
C13_TerminalIsNoOp ==
    [][\A id \in DOMAIN jobs :
          jobs[id].status \in Terminal =>
              /\ jobs'[id] = jobs[id]
              /\ id \in DOMAIN objstore => objstore'[id] = objstore[id]
              /\ cur' = id => busy' = {}]_vars

\* C14: when the message of a job whose row was left in processing (by an
\* interrupted consumer) is delivered again, the consumer runs the executor
\* for it again: the idle consumer never just marks such a message.
C14_RedeliveryReruns ==
    [][\A id \in DOMAIN jobs :
          (pc = "idle" /\ jobs[id].status = StatusProcessing) =>
              marked'[id] = marked[id]]_vars

\* C15: a message whose value is not a job descriptor creates no job record,
\* starts no executor run and leaves no manifest: the job store and the object
\* store hold entries of the gateway's job ids only, and every run is the run
\* of such a job.
C15_MalformedCreatesNothing ==
    /\ DOMAIN jobs \subseteq JobIds
    /\ DOMAIN objstore \subseteq JobIds
    /\ cur \in JobIds \cup {"none"}

\* a message that is not JSON is marked without a job record or a run, and the
\* consumer goes on to run the job of the message that follows
C15_UnparsableIsSkipped ==
    (ForeignKey \in DOMAIN topic /\ topic[ForeignKey] = InvalidJSON) =>
        /\ EmptyJobId \notin DOMAIN jobs
        /\ cur # EmptyJobId

\* C16: a run whose context was cancelled before all items of the job drained
\* (the collector's loop ended with fewer than N results) ends with the job in
\* status failed with a reason, and with no manifest stored for it.
C16_CancelledRunFails ==
    (runReturned /\ (pc = "returned" => uploadErr) /\ completed < TotalItems) =>
        /\ cur \in DOMAIN jobs
        /\ jobs[cur].status = StatusFailed
        /\ jobs[cur].error_msg # <<>>
        /\ cur \notin DOMAIN objstore

(***************************************************************************)
(* Claims about the gateway.                                               *)
(***************************************************************************)
AdmittedIn(p, from, to) ==
    Cardinality({i \in DOMAIN admissions[p] :
                    from <= admissions[p][i].t /\ admissions[p][i].t < to})

\* C17: for every principal and every time window of the configured length,
\* at most limit + 1 requests are admitted; stated for the runs in which Redis
\* answered every INCR (no request passed because Redis was down).
C17_WindowBound ==
    \A p \in Principals :
        FailOpens(p) = 0 =>
            \A x \in 0..MaxClock : AdmittedIn(p, x, x + Window) <= Limit + 1

\* C18: a synchronous inference request for a (model, version) without
\* registry entry is answered 404 by the gateway.
C18_UnknownTargetIs404 ==
    syncReply.err \in {ErrModelNotFound, ErrVersionNotFound} => syncReply.status = 404

\* C19: a request for a registered target is rejected by a breaker, without a
\* backend call, only if the breaker of every backend of the target is open:
\* no step answers a request with a breaker error while some backend's
\* breaker is not open.
C19_RejectedOnlyIfAllOpen ==
    [][(syncReply' # syncReply /\ syncReply'.err \in {ErrOpenState, ErrTooManyRequests}) =>
          \A j \in DOMAIN backends :
              currentState(backends[j].cb, now).state = StateOpen]_vars

\* C20: RegisterBackend is idempotent on a URL that is already registered: the
\* list of a target holds each URL at most once.
C20_EachURLOnce ==
    \A i, j \in DOMAIN backends : backends[i].url = backends[j].url => i = j

\* C21: registry round trip.  After a deregistration of url, lookup excludes
\* url (and so no request is routed to it any more).
C21_DeregisteredIsGone ==
    \A url \in deregistered : url \notin Lookup(backends)

\* C21, first half: after RegisterBackend(url) the lookup contains url.
C21_RegisteredIsFound ==
    [][\A url \in RegisterURLs :
          Len(backends') > Len(backends) /\ backends'[Len(backends')].url = url
              => url \in Lookup(backends')]_vars

\* C22: a batch submission is answered 202 with (job_id, pending) only when
\* the descriptor with that job id and the submitted inputs is on the log; an
\* answer other than 202 carries no job id and leaves the log as it was; the
\* handler leaves the router (registry, breakers, backend calls) untouched.
C22_AcceptedAfterPublish ==
    [][batchReply' # batchReply =>
          /\ batchReply'.status = 202 =>
                /\ batchReply'.job_status = "pending"
                /\ batchReply'.job_id \in DOMAIN topic' \ DOMAIN topic
                /\ topic'[batchReply'.job_id] = batchReply'.inputs
          /\ batchReply'.status # 202 =>
                /\ batchReply'.job_id = NoJob
                /\ topic' = topic
          /\ UNCHANGED <<backends, inflight>>]_vars

C22_Witness ==
    /\ batchReply.status = 202
    /\ batchReply.job_id \in DOMAIN topic
    /\ Len(topic[batchReply.job_id]) > 0

\* C23: a batch submission with zero inputs is rejected at admission: it is
\* not answered 202, gets no job id, and no descriptor with an empty inputs
\* sequence is on the log.
C23_EmptyBatchRejected ==
    /\ batchReply.status = 202 => batchReply.inputs # <<>>
    /\ \A id \in DOMAIN topic : topic[id] # <<>>

\* C24: the job status endpoint proxies the job store: a poll for a job the
\* store holds answers with the row's status, progress, completed count and
\* result_url as they are at that moment (so a completed job is reported
\* completed with a non-empty result_url), and a poll for a job id the store
\* does not hold answers 404.
C24_StatusProxiesStore ==
    [][statusReply' # statusReply =>
          LET id == statusReply'.job_id
          IN IF id \in DOMAIN jobs
             THEN /\ statusReply'.http = 200
                  /\ statusReply'.status = jobs[id].status
                  /\ statusReply'.progress = jobs[id].progress
                  /\ statusReply'.completed = jobs[id].completed
                  /\ statusReply'.result_url = jobs[id].result_url
                  /\ jobs[id].status = StatusCompleted => statusReply'.result_url # ""
             ELSE statusReply'.http = 404]_vars

\* C25: the correlation id the gateway generates for a synchronous request is
\* the id the router receives, the id the backend call carries and the id in
\* the response to the client, whether the request succeeds or fails.
C25_CorrelationPropagated ==
    \A hop \in {"router", "backend", "response"} :
        correlation[hop] # NoHop =>
            /\ correlation[hop] \in RequestIds
            /\ correlation[hop] = correlation.request_id

\* C26: every request the throttle admits carries X-RateLimit-Limit,
\* X-RateLimit-Remaining and X-RateLimit-Reset; Remaining is the limit minus
\* the requests counted for the principal in the window and is not negative;
\* Reset is a time after the request.
C26_AdmittedHeaders ==
    \A p \in Principals : \A i \in DOMAIN admissions[p] :
        LET a == admissions[p][i]
        IN a.counted =>
             /\ a.headers.limit = Limit
             /\ a.headers.remaining = Limit - a.count
             /\ a.headers.remaining >= 0
             /\ a.headers.reset # NoHeader
             /\ a.headers.reset > a.t

\* C26 without the Reset header: Limit and Remaining are as claimed on every
\* request the throttle counted and admitted.
C26_LimitAndRemaining ==
    \A p \in Principals : \A i \in DOMAIN admissions[p] :
        LET a == admissions[p][i]
        IN a.counted =>
             /\ a.headers.limit = Limit
             /\ a.headers.remaining = Limit - a.count
             /\ a.headers.remaining >= 0

\* C27: once DeleteModel for a model id has answered 200, every GetModel for
\* that id that starts afterwards answers 404, also when a GetModel for the id
\* ran concurrently with the delete (stated for runs in which no cache
\* operation failed).
C27_DeletedStaysGone ==
    (getReply.afterDelete /\ ~getReply.cacheFailed) => getReply.status = 404

\* C27 also for runs in which a cache operation failed.
C27_DeletedStaysGoneAnyRun ==
    getReply.afterDelete => getReply.status = 404

\* C28: a closed breaker turns open exactly when a failure is recorded and the
\* window then holds at least 3 requests with failures / requests >= 0.6; a
\* failure recorded with fewer than 3 requests in the window, or with a lower
\* ratio, leaves it closed, and so does every other step.
C28_TripsExactly ==
    [][\A i \in DOMAIN backends :
          LET before == currentState(backends[i].cb, now)
              after == backends'[i].cb
              failureRecorded ==
                  \E c \in DOMAIN inflight :
                      /\ c.backend = i
                      /\ c.generation = before.generation
                      /\ inflight' = inflight (-) SetToBag({c})
                      /\ \/ after.state = StateOpen
                         \/ after.totalFailures = before.totalFailures + 1
              enough ==
                  /\ before.requests >= 3
                  /\ (before.totalFailures + 1) * 10 >= 6 * before.requests
          IN before.state = StateClosed =>
                (after.state = StateOpen <=> (failureRecorded /\ enough))]_vars

\* one breaker has tripped, another is closed after a failure that left its
\* window at 3 requests with 1 failure
C28_Witness ==
    /\ \E i \in DOMAIN backends : backends[i].cb.state = StateOpen
    /\ \E j \in DOMAIN backends :
          /\ backends[j].cb.state = StateClosed
          /\ backends[j].cb.requests = 3
          /\ backends[j].cb.totalFailures = 1

\* the backends whose breaker is half-open at this instant
HalfOpenBackends ==
    {i \in DOMAIN backends :
        /\ backends[i].cb.state # StateClosed
        /\ currentState(backends[i].cb, now).state = StateHalfOpen}

\* this step is the return of the trial call c of backend i with outcome: c is
\* a call of the breaker's current generation
TrialReturns(i, c, outcome) ==
    /\ c.backend = i
    /\ c.generation = currentState(backends[i].cb, now).generation
    /\ CallStep(c, outcome)

CountersReset(cb) ==
    cb.requests = 0 /\ cb.totalFailures = 0 /\ cb.consecutiveSuccesses = 0

\* an open breaker is half-open once more than 30 s have passed since it opened
OpenTurnsHalfOpen ==
    \A i \in DOMAIN backends :
        backends[i].cb.state = StateOpen =>
            (currentState(backends[i].cb, now).state = StateHalfOpen
                <=> now > backends[i].cb.openedAt + 30)

\* a failed trial call moves the breaker to open, the open duration re-armed
FailedTrialReopens(i, c) ==
    (\E outcome \in Outcomes : ~IsSuccessful(outcome) /\ TrialReturns(i, c, outcome)) =>
        /\ backends'[i].cb.state = StateOpen
        /\ backends'[i].cb.openedAt = now
        /\ backends'[i].cb.expiry = now + 30

\* C29: an open breaker becomes half-open when its open duration of 30 s has
\* elapsed; from half-open a successful trial call moves the breaker to closed
\* with all counters reset, and a failed trial call moves it back to open with
\* the open duration re-armed.
C29_HalfOpenTransitions ==
    [][/\ OpenTurnsHalfOpen
       /\ inflight' # inflight =>
             \A i \in HalfOpenBackends, c \in DOMAIN inflight :
                 /\ FailedTrialReopens(i, c)
                 /\ TrialReturns(i, c, "200") =>
                       /\ backends'[i].cb.state = StateClosed
                       /\ CountersReset(backends'[i].cb)]_vars

\* C29 as amended: from half-open the breaker closes, all counters reset, with
\* the third consecutive successful trial call; an earlier successful trial
\* leaves it half-open with the success counted.
C29_HalfOpenClosesAfterThree ==
    [][/\ OpenTurnsHalfOpen
       /\ inflight' # inflight =>
             \A i \in HalfOpenBackends, c \in DOMAIN inflight :
                 /\ FailedTrialReopens(i, c)
                 /\ TrialReturns(i, c, "200") =>
                       LET before == currentState(backends[i].cb, now) IN
                       IF before.consecutiveSuccesses + 1 >= 3
                       THEN /\ backends'[i].cb.state = StateClosed
                            /\ CountersReset(backends'[i].cb)
                       ELSE /\ backends'[i].cb.state = StateHalfOpen
                            /\ backends'[i].cb.generation = before.generation
                            /\ backends'[i].cb.consecutiveSuccesses =
                                   before.consecutiveSuccesses + 1]_vars

\* a breaker that is closed again after it had been open, and a breaker that
\* a failed trial has opened again
C29_Witness ==
    /\ \E i \in DOMAIN backends :
          /\ backends[i].cb.state = StateClosed
          /\ backends[i].cb.openedAt # ZeroTime
    /\ \E j \in DOMAIN backends :
          /\ backends[j].cb.state = StateOpen
          /\ backends[j].cb.openedAt > 0

\* C30: selection starves no backend: in a stream of requests for a target
\* with several backends whose breakers are closed, a backend is selected
\* again within a bounded number of requests (here: at most StarvationBound
\* requests in a row go to other backends).
C30_SelectedWithinBound ==
    (\A j \in DOMAIN backends : currentState(backends[j].cb, now).state = StateClosed) =>
        \A i \in DOMAIN sinceSelected : sinceSelected[i] <= StarvationBound

\* C31: breakers are per backend: the result of a call to one backend changes
\* the counters and the state of that backend's breaker only; the breaker of
\* every other backend of the target, a backend registered under the same URL
\* included, is as before; and a request admitted at one backend changes no
\* other backend's breaker.
C31_BreakerPerBackend ==
    [][inflight' # inflight =>
          \A i \in DOMAIN backends :
              (\E c \in DOMAIN inflight \cup DOMAIN inflight' :
                  /\ c.backend = i
                  /\ \/ inflight' = inflight (-) SetToBag({c})
                     \/ inflight' = inflight (+) SetToBag({c}))
              => \A j \in DOMAIN backends \ {i} : backends'[j] = backends[j]]_vars

\* two backends under one URL: the breaker of one is open after its failures,
\* the other's is closed with no failure counted
C31_Witness ==
    \E i, j \in DOMAIN backends :
        /\ i # j
        /\ backends[i].url = backends[j].url
        /\ backends[i].cb.state = StateOpen
        /\ backends[j].cb.state = StateClosed
        /\ backends[j].cb.totalFailures = 0

\* ---------------------------------------------------------------------------
\* C32: after the executor's context is cancelled no worker starts the call
\* for a new item: once ctxCancelled holds, no index enters the set of items
\* that workers are processing.
C32_NoDispatchAfterCancel ==
    [][ctxCancelled => busy' \subseteq busy]_vars

\* ---------------------------------------------------------------------------
\* C33: a job's status only moves pending -> processing -> (completed |
\* failed): a row enters the store as pending, every write that changes a
\* status takes one of these steps, no write changes the status of a terminal
\* job, and a terminal row always carries its completion timestamp.
StatusSteps ==
    {<<StatusPending, StatusProcessing>>, <<StatusProcessing, StatusCompleted>>,
     <<StatusProcessing, StatusFailed>>}

C33_StatusMovesForward ==
    [][jobs' # jobs =>
          \A id \in DOMAIN jobs' :
              /\ id \notin DOMAIN jobs => jobs'[id].status = StatusPending
              /\ id \in DOMAIN jobs /\ jobs'[id].status # jobs[id].status
                    => <<jobs[id].status, jobs'[id].status>> \in StatusSteps
              /\ jobs'[id].status \in Terminal => jobs'[id].completed_at]_vars

\* a failed job and a redelivery of its message already refused by the INSERT
C33_Witness ==
    \E id \in DOMAIN jobs :
        /\ jobs[id].status = StatusFailed
        /\ jobs[id].completed_at
        /\ marked[id] = 2
        /\ pc = "idle"

\* ---------------------------------------------------------------------------
\* C34: no router lock is held across a backend call: a goroutine inside
\* client.Do holds neither side of the registry lock nor any backend's lock,
\* and whenever nothing but waiting calls is going on the registry lock is
\* free for a registration and for the routing of another request.
Calling == {q \in RouteGoroutines : routine[q].pc = "calling"}

C34_NoLockAcrossCall ==
    /\ \A q \in Calling :
          /\ q \notin mu.readers \cup mu.writer
          /\ routine[q].bmu = NoBackend
    /\ (\A q \in RouteGoroutines : routine[q].pc \in {"calling", "idle"}) /\ registering = "idle"
          => CanLock(mu) /\ CanRLock(mu)

\* both routing goroutines wait for their backends while RegisterBackend
\* holds the write lock
C34_Witness ==
    /\ Calling = RouteGoroutines
    /\ registering = "locked"
    /\ mu.writer # {}

\* ---------------------------------------------------------------------------
\* C35: in one executor run with pool width size, at most size item calls
\* are in flight at any moment, and an index is handed out once: an index
\* that enters the set of items being processed was never taken before.
C35_AtMostWidthInFlight ==
    [][/\ Cardinality(busy') <= size
       /\ Cardinality(busy') + exited' <= size
       /\ \A i \in busy' \ busy : i > taken /\ i <= taken' /\ slotWrites[i] = 0]_vars

\* a pool of one worker is busy with the first of two items while the second
\* waits in the input channel
C35_Witness ==
    /\ size = 1
    /\ TotalItems = 2
    /\ sent = 2
    /\ busy = {1}

\* ---------------------------------------------------------------------------
\* C36: ProcessJob always returns: every run that has been started, with any
\* number of items and workers and with or without cancellation, comes to
\* its return; when it returns after starting the pool every worker has
\* returned, no item is left with a worker and the result channel is closed
\* and drained.
PoolDone ==
    /\ exited = size
    /\ busy = {}
    /\ resultClosed
    /\ resultChan = <<>>

RunOver ==
    /\ pc \in {"returned", "returned_ok"}
    /\ senderPc = "idle" \/ PoolDone

C36_ProcessJobReturns == (pc = "start") ~> RunOver

\* a cancelled run has returned: the sender gave up before the last item,
\* the workers have all returned and the result channel is closed
C36_Witness ==
    /\ pc = "returned"
    /\ ctxCancelled
    /\ senderPc = "aborted"
    /\ sent < TotalItems
    /\ PoolDone

\* ---------------------------------------------------------------------------
\* C37: every rate-limit counter key that exists with a count of at least 1
\* has an expiry of at most one window from now, whatever the interleaving
\* and whichever of the increment and expire steps fails (a key whose first
\* request is still between its INCR and its EXPIRE is not yet judged).
C37_CountedKeyExpires ==
    \A p \in Principals :
        /\ Live(rlKeys[p], now).count >= 1
        /\ ~\E r \in rlReqs : r.principal = p /\ r.pc = "expire"
        => /\ rlKeys[p].expiry # NoTTL
           /\ rlKeys[p].expiry <= now + Window

\* ---------------------------------------------------------------------------
\* C38: when the increment on the rate-limit store fails the request is
\* passed to the handler without being counted: the step leaves every
\* counter and every pending request as it was, and the throttle answers
\* neither 429 nor a 5xx.
C38_StoreFailureAdmits ==
    [][\A p \in Principals :
          Len(admissions'[p]) > Len(admissions[p])
          /\ ~admissions'[p][Len(admissions'[p])].counted
          => /\ rlKeys' = rlKeys
             /\ rlReqs' = rlReqs
             /\ admissions'[p][Len(admissions'[p])].status = 200
             /\ admissions'[p][Len(admissions'[p])].headers = NoHeaders]_vars

\* the store fails for a principal whose counter is already over the limit:
\* the request is admitted all the same
C38_Witness ==
    \E p \in Principals :
        /\ Live(rlKeys[p], now).count > Limit
        /\ admissions[p] # <<>>
        /\ ~admissions[p][Len(admissions[p])].counted

\* ---------------------------------------------------------------------------
\* C39: a request that authentication rejects is answered 401 and goes no
\* further: it increments no rate-limit counter, adds no pending or admitted
\* request, starts no router call and publishes nothing; and a counter only
\* changes in a step of a request of its own principal.
Authentic == {<<"demo-token">>, <<"Bearer", "demo-token">>,
              <<"jwt-alice">>, <<"Bearer", "jwt-alice">>}

C40_UploadFailureFailsJob ==
    pc = "returned" /\ uploadErr /\ completed = TotalItems
    => /\ cur \in DOMAIN jobs
       /\ jobs[cur].status = StatusFailed
       /\ jobs[cur].error_msg = UploadErrorMsg
       /\ jobs[cur].result_url = ""

====
